---- MODULE Spec2Model ----
(***************************************************************************)
(* A model of the zuroxc front end: the lexer (src/src/lexer.rs), the      *)
(* parser (src/src/parser.rs) and the token accessors (src/src/token.rs).  *)
(*                                                                         *)
(* Text is modelled as a sequence of bytes, each byte a one-character      *)
(* string; a two-byte character is its lead byte followed by its           *)
(* continuation byte.  Lexer.col is a byte offset (0-based), so the byte   *)
(* at offset c of inp is inp[c + 1].                                       *)
(***************************************************************************)
EXTENDS Integers, Sequences, FiniteSets, TLC

VARIABLES
    input,      \* Lexer.input: the bytes of the source text
    line,       \* Lexer.line
    col,        \* Lexer.col: byte offset of the cursor
    tokens,     \* Lexer.tokens
    has_error,  \* Lexer.has_error
    pc,         \* where the lexer is: "scan" (inside lex), "ret" (lex returned), "panic"
    returned,   \* the token list the last call of lex returned
    calls,      \* how many times lex was called on this Lexer value
    starts,     \* history: for each token of Lexer.tokens, the cursor at which the
                \* step that pushed it began
    ptokens,    \* Parser.tokens
    index,      \* Parser.index
    phas_error, \* Parser.has_error
    ast,        \* the declarations pushed by Parser::parse so far
    ppc,        \* where the parser is: "new", "parse", "ret", "oob", "todo"
    attempts,   \* history: how many iterations of the loop of parse were begun
    first,      \* history: the outcome of the first Parser value's parse, once a
                \* second Parser value was constructed from the same tokens
    fs,         \* the file system: the content of every path, NoFile if absent
    hfile,      \* get_hash: the path being hashed, <<>> when no call is running
    hpos,       \* get_hash: how many bytes of the file the reader has returned
    hreads,     \* get_hash: how many reads of the running call returned bytes
    hasher,     \* get_hash: the state of the Sha512 hasher
    hdone,      \* history: the results of the calls of get_hash, in order
    cachedir,   \* the cache directory: the content of every entry, NoFile if absent
    wpc,        \* for each worker: "idle", or "writing" (inside save_ast_to_file)
    wjob,       \* for each worker: the save it is in (path, bytes, file offset)
    wres,       \* for each worker: the result of the cache function it called last
    stored,     \* history: for each entry, the tree of the last save_ast_to_file
                \* that returned, if nothing wrote the entry since it began
    saved,      \* history: the digests an entry was ever saved under
    nsaves,     \* how many calls of save_ast_to_file were made
    compiled,   \* the tree every worker's compilation of the shared source gives
    dpc,        \* where main is: "check", "hit", "miss", "done", "exit", "panic"
    dfiles,     \* main: the files of the command line not yet processed
    ddigest,    \* main: the digest of the file being processed
    dlog,       \* history: what main did with each file
    dstages     \* history: the stages main entered, in order, with the
                \* number of the file and the lexer's error flag

lexvars == <<input, line, col, tokens, has_error, pc, returned, calls, starts>>
parvars == <<ptokens, index, phas_error, ast, ppc, attempts, first>>
hashvars == <<hfile, hpos, hreads, hasher, hdone>>
workvars == <<wpc, wjob, wres, stored, saved, nsaves, compiled>>
drivervars == <<dpc, dfiles, ddigest, dlog, dstages>>
fsvars == <<fs, hashvars, cachedir, workvars, drivervars>>
vars == <<input, line, col, tokens, has_error, pc, returned, calls, starts,
          ptokens, index, phas_error, ast, ppc, attempts, first,
          fs, hfile, hpos, hreads, hasher, hdone,
          cachedir, wpc, wjob, wres, stored, saved, nsaves, compiled,
          dpc, dfiles, ddigest, dlog, dstages>>

\* Longest source text, in characters, of each input family.
MaxNumLen == 4
MaxQuoteLen == 5
MaxCommentLen == 4
\* How many times lex is called on one Lexer value.
MaxCalls == 2
\* Longest token sequence given to the parser, the trailing Eof not counted.
MaxTokens == 4
\* Longest source file that is hashed, in bytes.
MaxFileLen == 3
\* The block of the hash function and the buffer of get_hash (128 and 8192
\* bytes in the program), in bytes.
BlockLen == 2
ReadBuf == 3
\* How many times get_hash is called.
MaxHashes == 2
\* How many workers use the cache at once.
MaxWorkers == 2
\* How many times save_ast_to_file is called.
MaxSaves == 2
\* How many bytes a short write takes.
WriteChunk == 32
\* How many files main is given.
MaxFiles == 2

(***************************************************************************)
(* Characters                                                              *)
(***************************************************************************)
Digits == {"0", "1", "2", "3", "4", "5", "6", "7", "8", "9"}
OctDigits == {"0", "1", "2", "3", "4", "5", "6", "7"}
BinDigits == {"0", "1"}
HexDigits == Digits \cup {"a", "b", "c", "d", "e", "f", "A", "B", "C", "D", "E", "F"}

\* Lead bytes of the two-byte characters of the model: U+00E9 (C3 A9), a
\* letter, and U+0663 (D9 A3), a digit for char::is_numeric that is not an
\* ASCII digit.
LeadBytes == {"C3", "D9"}
ContBytes == {"A9", "A3"}

\* char::len_utf8 of the character whose first byte is b
Len8(b) == IF b \in LeadBytes THEN 2 ELSE 1

\* the bytes of character ch
Bytes(ch) ==
    IF ch = "C3" THEN <<"C3", "A9">>
    ELSE IF ch = "D9" THEN <<"D9", "A3">>
    ELSE <<ch>>

\* char::is_numeric
Numeric == Digits \cup {"D9"}

\* char::is_whitespace
Whitespace == {" ", "\n", "\t", "\r"}

Separators == {";", ",", "{", "}", "[", "]", "(", ")"}

Operators == {">", "<", "=", "!", "^", "|", "&", "~", "+", "-", "*", "/", "%", "."}

is_separator(c) == c \in Separators

is_operator(c) == c \in Operators

DATA_TYPES == {
    <<"u", "8">>, <<"u", "1", "6">>, <<"u", "3", "2">>, <<"u", "6", "4">>,
    <<"i", "8">>, <<"i", "1", "6">>, <<"i", "3", "2">>, <<"i", "6", "4">>,
    <<"f", "3", "2">>, <<"f", "6", "4">>, <<"u", "1", "2", "8">>,
    <<"i", "1", "2", "8">>, <<"f", "8", "0">>, <<"f", "1", "2", "8">>,
    <<"c", "h", "a", "r">>, <<"b", "o", "o", "l">> }

KEYWORDS == {
    <<"a", "s", "m">>, <<"i", "f">>, <<"e", "l", "i", "f">>, <<"e", "l", "s", "e">>,
    <<"l", "o", "o", "p">>, <<"f", "n">>, <<"r", "e", "t">>, <<"t", "r", "u", "e">>,
    <<"f", "a", "l", "s", "e">>, <<"r", "e", "f">>, <<"d", "e", "r", "e", "f">>,
    <<"i", "m", "p", "l">>, <<"s", "t", "r", "u", "c", "t">>,
    <<"a", "s", "y", "n", "c">>, <<"e", "n", "u", "m">>, <<"v", "o", "i", "d">>,
    <<"v", "o", "l", "a", "t", "i", "l", "e">>, <<"n", "u", "l", "l">>,
    <<"i", "m", "p", "o", "r", "t">>, <<"l", "l", "v", "m">>,
    <<"b", "r", "e", "a", "k">>, <<"c", "o", "n", "t", "i", "n", "u", "e">>,
    <<"m", "a", "t", "c", "h">>, <<"d", "e", "f">>, <<"p", "u", "b">>,
    <<"c", "o", "n", "s", "t">>, <<"d", "e", "f", "a", "u", "l", "t">> }

find_dt(x) == x \in DATA_TYPES

find_keyword(x) == x \in KEYWORDS

(***************************************************************************)
(* Tokens                                                                  *)
(***************************************************************************)
Tok(kind, ln, c, lexeme) ==
    [kind |-> kind, err |-> "None", line |-> ln, col |-> c, lexeme |-> lexeme]

ErrTok(e, ln, c, lexeme) ==
    [kind |-> "Error", err |-> e, line |-> ln, col |-> c, lexeme |-> lexeme]

Eof == [kind |-> "Eof", err |-> "None", line |-> 0, col |-> 0, lexeme |-> <<>>]

get_line(t) == IF t.kind \in {"Error", "Eof"} THEN 0 ELSE t.line

get_col(t) == IF t.kind \in {"Error", "Eof"} THEN 0 ELSE t.col

get_lexeme(t) == IF t.kind \in {"Error", "Eof"} THEN <<>> ELSE t.lexeme

(***************************************************************************)
(* Lexer: cursor primitives                                                *)
(***************************************************************************)
\* the bytes of inp at offsets a .. b-1
Slice(inp, a, b) == SubSeq(inp, a + 1, b)

\* whether byte offset c is a character boundary of inp (str slicing panics
\* elsewhere)
IsBoundary(inp, c) ==
    /\ c >= 0
    /\ c <= Len(inp)
    /\ (c < Len(inp) => inp[c + 1] \notin ContBytes)

\* Lexer::current: the character at the cursor, "NONE" at the end of input
current(inp, c) ==
    IF ~IsBoundary(inp, c) THEN "PANIC"
    ELSE IF c >= Len(inp) THEN "NONE"
    ELSE inp[c + 1]

\* a lookahead that skips two bytes whatever the current character is
peek_two_bytes(inp, c) == current(inp, c + 2)

\* Lexer::peek: the character one byte after the cursor
peek(inp, c) == current(inp, c + 1)

\* Lexer::advance
advance(inp, c) ==
    IF current(inp, c) \in {"NONE", "PANIC"} THEN c ELSE c + Len8(inp[c + 1])

eof(inp, c) == c >= Len(inp)

\* the offset of the first character at or after c that is not in S:
\* the loops `while let Some(c) = self.current() { if <c in S> { push; advance } else { break } }`
RECURSIVE ScanWhile(_, _, _)
ScanWhile(inp, c, S) ==
    IF c < Len(inp) /\ inp[c + 1] \in S
    THEN ScanWhile(inp, c + Len8(inp[c + 1]), S)
    ELSE c

\* What one handler did: the cursor it left, the tokens it pushed, whether
\* it set has_error, whether it panicked.
Done(c, toks, err) == [col |-> c, toks |-> toks, err |-> err, panic |-> FALSE]

Panic(c) == [col |-> c, toks |-> <<>>, err |-> FALSE, panic |-> TRUE]

\* usize subtraction `self.col - str.len()`: the start column
StartOk(c, str) == c >= Len(str)

(***************************************************************************)
(* Lexer: numeric literals                                                 *)
(***************************************************************************)
DigitVal(ch) ==
    CASE ch = "0" -> 0 [] ch = "1" -> 1 [] ch = "2" -> 2 [] ch = "3" -> 3
      [] ch = "4" -> 4 [] ch = "5" -> 5 [] ch = "6" -> 6 [] ch = "7" -> 7
      [] ch = "8" -> 8 [] ch = "9" -> 9
      [] ch \in {"a", "A"} -> 10 [] ch \in {"b", "B"} -> 11
      [] ch \in {"c", "C"} -> 12 [] ch \in {"d", "D"} -> 13
      [] ch \in {"e", "E"} -> 14 [] ch \in {"f", "F"} -> 15

\* the digits of u64::MAX = 2^64 - 1 in each radix
MaxDigits(radix) ==
    CASE radix = 16 -> [i \in 1..16 |-> "f"]
      [] radix = 8 -> [i \in 1..22 |-> IF i = 1 THEN "1" ELSE "7"]
      [] radix = 2 -> [i \in 1..64 |-> "1"]
      [] radix = 10 -> <<"1", "8", "4", "4", "6", "7", "4", "4", "0", "7",
                         "3", "7", "0", "9", "5", "5", "1", "6", "1", "5">>

RECURSIVE StripZeros(_)
StripZeros(d) == IF d # <<>> /\ Head(d) = "0" THEN StripZeros(Tail(d)) ELSE d

\* a <= b for two digit strings of the same length
RECURSIVE DigitsLeq(_, _)
DigitsLeq(a, b) ==
    IF a = <<>> THEN TRUE
    ELSE IF DigitVal(Head(a)) # DigitVal(Head(b)) THEN DigitVal(Head(a)) < DigitVal(Head(b))
    ELSE DigitsLeq(Tail(a), Tail(b))

\* the value of the digit string is at most u64::MAX
FitsU64(digs, radix) ==
    LET d == StripZeros(digs)
        m == MaxDigits(radix)
    IN  \/ Len(d) < Len(m)
        \/ Len(d) = Len(m) /\ DigitsLeq(d, m)

RadixDigits(radix) ==
    CASE radix = 16 -> HexDigits [] radix = 8 -> OctDigits
      [] radix = 2 -> BinDigits [] radix = 10 -> Digits

\* u64::from_str_radix(digs, radix).is_ok(): a non-empty string of digits
\* of the radix whose value fits 64 bits
from_str_radix_ok(digs, radix) ==
    /\ digs # <<>>
    /\ \A i \in 1..Len(digs) : digs[i] \in RadixDigits(radix)
    /\ FitsU64(digs, radix)

\* str.parse::<u64>().is_ok()
parse_u64_ok(str) == from_str_radix_ok(str, 10)

\* str.parse::<f64>().is_ok(), for the unsigned texts number() builds:
\*   Number ::= ( Digit+ | Digit+ '.' Digit* | Digit* '.' Digit+ ) Exp?
\*   Exp    ::= 'e' Sign? Digit+
parse_f64_ok(str) ==
    LET n  == Len(str)
        i1 == ScanWhile(str, 0, Digits)
        dot == i1 < n /\ str[i1 + 1] = "."
        i2 == IF dot THEN ScanWhile(str, i1 + 1, Digits) ELSE i1
        frac == IF dot THEN i2 - (i1 + 1) ELSE 0
        hasExp == i2 < n /\ str[i2 + 1] \in {"e", "E"}
        i3 == IF hasExp /\ i2 + 1 < n /\ str[i2 + 2] \in {"+", "-"} THEN i2 + 2 ELSE i2 + 1
        i4 == IF hasExp THEN ScanWhile(str, i3, Digits) ELSE i2
    IN  /\ i1 > 0 \/ frac > 0
        /\ hasExp => i4 > i3
        /\ i4 = n

\* the branches 'x' | 'X', 'o' | 'O', 'b' | 'B' of number(): c0 is the offset
\* of the leading '0', the prefix letter is at c0 + 1
RadixLiteral(inp, ln, c0, radix, errkind) ==
    LET end == ScanWhile(inp, c0 + 2, RadixDigits(radix))
        str == Slice(inp, c0, end)
    IN  IF ~StartOk(end, str) THEN Panic(end)
        ELSE IF ~from_str_radix_ok(Slice(str, 2, Len(str)), radix)
        THEN Done(end, <<ErrTok(errkind, ln, end - Len(str), str)>>, TRUE)
        ELSE Done(end, <<Tok("IntLiteral", ln, end - Len(str), str)>>, FALSE)

\* DecimalOrFloat with the digit loops testing for an ASCII digit where the
\* dispatch in lex tests char::is_numeric
DecimalOrFloatAscii(inp, ln, s) ==
    LET n  == Len(inp)
        e1 == ScanWhile(inp, s, Digits)
        dot == e1 < n /\ inp[e1 + 1] = "."
        e2 == IF dot THEN ScanWhile(inp, e1 + 1, Digits) ELSE e1
        hasExp == e1 < n /\ e2 < n /\ inp[e2 + 1] \in {"e", "E"}
        e3 == IF hasExp /\ e2 + 1 < n /\ inp[e2 + 2] \in {"+", "-"} THEN e2 + 2 ELSE e2 + 1
        end == IF hasExp THEN ScanWhile(inp, e3, Digits) ELSE e2
        is_float == dot \/ hasExp
        str == Slice(inp, s, end)
    IN  IF ~StartOk(end, str) THEN Panic(end)
        ELSE IF is_float
        THEN IF ~parse_f64_ok(str)
             THEN Done(end, <<ErrTok("InvalidFloat", ln, end - Len(str), str)>>, TRUE)
             ELSE Done(end, <<Tok("FloatLiteral", ln, end - Len(str), str)>>, FALSE)
        ELSE IF ~parse_u64_ok(str)
             THEN Done(end, <<ErrTok("InvalidDecimal", ln, end - Len(str), str)>>, TRUE)
             ELSE Done(end, <<Tok("IntLiteral", ln, end - Len(str), str)>>, FALSE)

\* "Handle decimal or float": s is the offset at which str starts to
\* accumulate
DecimalOrFloat(inp, ln, s) ==
    LET n  == Len(inp)
        e1 == ScanWhile(inp, s, Numeric)
        dot == e1 < n /\ inp[e1 + 1] = "."
        e2 == IF dot THEN ScanWhile(inp, e1 + 1, Numeric) ELSE e1
        hasExp == e1 < n /\ e2 < n /\ inp[e2 + 1] \in {"e", "E"}
        e3 == IF hasExp /\ e2 + 1 < n /\ inp[e2 + 2] \in {"+", "-"} THEN e2 + 2 ELSE e2 + 1
        end == IF hasExp THEN ScanWhile(inp, e3, Numeric) ELSE e2
        is_float == dot \/ hasExp
        str == Slice(inp, s, end)
    IN  IF ~StartOk(end, str) THEN Panic(end)
        ELSE IF is_float
        THEN IF ~parse_f64_ok(str)
             THEN Done(end, <<ErrTok("InvalidFloat", ln, end - Len(str), str)>>, TRUE)
             ELSE Done(end, <<Tok("FloatLiteral", ln, end - Len(str), str)>>, FALSE)
        ELSE IF ~parse_u64_ok(str)
             THEN Done(end, <<ErrTok("InvalidDecimal", ln, end - Len(str), str)>>, TRUE)
             ELSE Done(end, <<Tok("IntLiteral", ln, end - Len(str), str)>>, FALSE)

\* where str starts to accumulate in the decimal branch: a leading '0' is
\* advanced over before the match on the next character and is not pushed
DecimalStart(inp, c0) == IF inp[c0 + 1] = "0" THEN c0 + 1 ELSE c0

\* Lexer::number, called with a numeric character at c0
number(inp, ln, c0) ==
    LET next_c == IF inp[c0 + 1] = "0" THEN current(inp, c0 + 1) ELSE "NONE"
    IN  IF next_c \in {"x", "X"} THEN RadixLiteral(inp, ln, c0, 16, "InvalidHexaDecimal")
        ELSE IF next_c \in {"o", "O"} THEN RadixLiteral(inp, ln, c0, 8, "InvalidOctal")
        ELSE IF next_c \in {"b", "B"} THEN RadixLiteral(inp, ln, c0, 2, "InvalidBinary")
        ELSE DecimalOrFloat(inp, ln, DecimalStart(inp, c0))

(***************************************************************************)
(* Lexer: words, operators, comments, string and char literals             *)
(***************************************************************************)
\* the offset of the first character at or after c that is in Stop
RECURSIVE ScanUntil(_, _, _)
ScanUntil(inp, c, Stop) ==
    IF c < Len(inp) /\ inp[c + 1] \notin Stop
    THEN ScanUntil(inp, c + Len8(inp[c + 1]), Stop)
    ELSE c

\* a classification that looks into no table
ClassifyIdentifier(str) == "Identifier"

\* the kind given to the text of a word
Classify(str) ==
    IF find_dt(str) THEN "DataType"
    ELSE IF find_keyword(str) THEN "Keyword"
    ELSE "Identifier"

keyword_or_datatype_or_identifier(inp, ln, c0) ==
    LET end == ScanUntil(inp, c0, Operators \cup Separators \cup Whitespace)
        str == Slice(inp, c0, end)
    IN  IF ~StartOk(end, str) THEN Panic(end)
        ELSE Done(end, <<Tok(Classify(str), ln, end - Len(str), str)>>, FALSE)

\* a loop that takes a * alone for the end of the comment
RECURSIVE BlockCommentLoopAnyStar(_, _)
BlockCommentLoopAnyStar(inp, p) ==
    IF p >= Len(inp) THEN [col |-> p, closed |-> FALSE, panic |-> FALSE]
    ELSE IF inp[p + 1] = "*"
    THEN [col |-> advance(inp, advance(inp, p)), closed |-> TRUE, panic |-> FALSE]
    ELSE BlockCommentLoopAnyStar(inp, advance(inp, p))

\* the loop of handle_comment over the body of a block comment, at offset p:
\* where it stopped and whether it found the closing */
RECURSIVE BlockCommentLoop(_, _)
BlockCommentLoop(inp, p) ==
    IF p >= Len(inp) THEN [col |-> p, closed |-> FALSE, panic |-> FALSE]
    ELSE IF inp[p + 1] = "*" /\ peek(inp, p) = "PANIC"
    THEN [col |-> p, closed |-> FALSE, panic |-> TRUE]
    ELSE IF inp[p + 1] = "*" /\ peek(inp, p) = "/"
    THEN [col |-> advance(inp, advance(inp, p)), closed |-> TRUE, panic |-> FALSE]
    ELSE BlockCommentLoop(inp, advance(inp, p))

\* handle_comment without its assignment of has_error
CommentErrorFlagUnset == FALSE

\* the has_error flag handle_comment leaves after an unterminated comment
CommentErrorFlag == TRUE

\* Lexer::handle_comment, called with '/' at c0
handle_comment(inp, ln, c0) ==
    LET c1 == advance(inp, c0)
        next_c == current(inp, c1)
    IN  IF next_c = "/"
        THEN Done(ScanUntil(inp, advance(inp, c1), {"\n"}), <<>>, FALSE)
        ELSE IF next_c = "*"
        THEN LET r == BlockCommentLoop(inp, advance(inp, c1))
             IN  IF r.panic THEN Panic(r.col)
                 ELSE IF r.closed THEN Done(r.col, <<>>, FALSE)
                 ELSE Done(r.col,
                           <<ErrTok("UnterminatedComment", ln, r.col, Slice(inp, c0, r.col))>>,
                           CommentErrorFlag)
        ELSE Done(c1, <<>>, FALSE)

\* Lexer::handle_operator, called with an operator character at c0
handle_operator(inp, ln, c0) ==
    LET c == inp[c0 + 1]
    IN  IF c = "/" /\ peek(inp, c0) = "PANIC" THEN Panic(c0)
        ELSE IF c = "/" /\ peek(inp, c0) \in {"/", "*"} THEN handle_comment(inp, ln, c0)
        ELSE Done(advance(inp, c0), <<Tok("Operator", ln, c0, <<c>>)>>, FALSE)

\* the while loop of handle_string_literal (q = '"') and of
\* handle_char_literal (q = '\''), at offset p with `literal` accumulated:
\* the cursor and the literal it leaves, and whether it returned through
\* the UnexpectedEOF branch
RECURSIVE QuotedLoop(_, _, _, _)
QuotedLoop(inp, p, literal, q) ==
    IF p >= Len(inp) THEN [col |-> p, literal |-> literal, unexpected |-> FALSE]
    ELSE LET c  == inp[p + 1]
             cb == Slice(inp, p, p + Len8(c))
         IN  IF c = q
             THEN LET x  == literal[Len(literal)]
                      l1 == Append(literal, c)
                      p1 == advance(inp, p)
                  IN  IF x # "\\" THEN [col |-> p1, literal |-> l1, unexpected |-> FALSE]
                      ELSE IF eof(inp, p1)
                      THEN [col |-> p1, literal |-> l1, unexpected |-> TRUE]
                      ELSE QuotedLoop(inp, advance(inp, p1), l1 \o cb, q)
             ELSE IF eof(inp, p) THEN [col |-> p, literal |-> literal, unexpected |-> TRUE]
             ELSE QuotedLoop(inp, advance(inp, p), literal \o cb, q)

\* the body shared by handle_string_literal and handle_char_literal
QuotedLiteral(inp, ln, c0, q, kind, unterminated) ==
    LET r == QuotedLoop(inp, advance(inp, c0), <<inp[c0 + 1]>>, q)
    IN  IF ~StartOk(r.col, r.literal) THEN Panic(r.col)
        ELSE IF r.unexpected
        THEN Done(r.col, <<ErrTok("UnexpectedEOF", ln, r.col - Len(r.literal), r.literal)>>, TRUE)
        ELSE IF r.literal[Len(r.literal)] # q
        THEN Done(r.col, <<ErrTok(unterminated, ln, r.col - Len(r.literal), r.literal)>>, TRUE)
        ELSE Done(r.col, <<Tok(kind, ln, r.col - Len(r.literal), r.literal)>>, FALSE)

handle_string_literal(inp, ln, c0) ==
    QuotedLiteral(inp, ln, c0, "\"", "StringLiteral", "UnterminatedStringLiteral")

handle_char_literal(inp, ln, c0) ==
    QuotedLiteral(inp, ln, c0, "'", "CharLiteral", "UnterminatedCharacterLiteral")

(***************************************************************************)
(* Syntax tree values                                                      *)
(***************************************************************************)
NoToken == [kind |-> "None", err |-> "None", line |-> 0, col |-> 0, lexeme |-> <<>>]

\* Option<ParserError>::None
NoError == [kind |-> "None", line |-> 0, col |-> 0, text |-> "", lexeme |-> <<>>]

\* a ParserError variant; its String is `text` followed by `lexeme`
ParserError(kind, ln, c, text, lexeme) ==
    [kind |-> kind, line |-> ln, col |-> c, text |-> text, lexeme |-> lexeme]

\* ast::Identifier {id, error}
Identifier(id, error) == [id |-> id, error |-> error]

NoIdentifier == Identifier(NoToken, NoError)

\* ast::Declaration: kind "Function" (a FunctionDeclaration with its
\* modifiers, name and embedded error; every FunctionDeclaration parse_fn
\* returns has generics None, parameters None and an empty block, which are
\* left out) or kind "Error"
FunctionDeclaration(id, is_pub, is_const, error) ==
    [kind |-> "Function", is_pub |-> is_pub, is_const |-> is_const, id |-> id,
     error |-> error]

ErrorDeclaration(error) ==
    [kind |-> "Error", is_pub |-> FALSE, is_const |-> FALSE, id |-> NoIdentifier,
     error |-> error]

(***************************************************************************)
(* Parser                                                                  *)
(***************************************************************************)
\* words the parser compares lexemes to
W_pub == <<"p", "u", "b">>
W_const == <<"c", "o", "n", "s", "t">>
W_fn == <<"f", "n">>
W_enum == <<"e", "n", "u", "m">>
W_struct == <<"s", "t", "r", "u", "c", "t">>
W_intf == <<"i", "n", "t", "f">>
W_type == <<"t", "y", "p", "e">>
W_impl == <<"i", "m", "p", "l">>

\* Parser::eof
peof(toks, i) == i >= Len(toks)

\* whether Parser::current, `self.tokens[self.index]`, is within the buffer
\* (it panics otherwise)
InBounds(toks, i) == i < Len(toks)

\* Parser::current (index is 0-based)
pcurrent(toks, i) == toks[i + 1]

\* Parser::check
check(toks, i, lexeme) == get_lexeme(pcurrent(toks, i)) = lexeme

\* the result of a parsing routine that aborted: why is "oob" (an index out
\* of bounds in current) or "todo" (a todo!() was reached)
Abort(why, i) == [abort |-> why, index |-> i]

\* Parser::parse_identifier: the Identifier it returns and the cursor it leaves
parse_identifier(toks, i) ==
    IF peof(toks, i) THEN Abort("oob", i)
    ELSE IF ~InBounds(toks, i + 1) THEN Abort("oob", i + 1)
    ELSE IF pcurrent(toks, i).kind = "Identifier"
    THEN [abort |-> "no", index |-> i + 1,
          node |-> Identifier(pcurrent(toks, i + 1), NoError)]
    ELSE [abort |-> "no", index |-> i + 1,
          node |-> Identifier(NoToken,
                     ParserError("InvalidSyntax",
                                 get_line(pcurrent(toks, i + 1)),
                                 get_col(pcurrent(toks, i + 1)),
                                 "", get_lexeme(pcurrent(toks, i + 1))))]

\* the while loop of parse_generic_parameters with the cursor at i and
\* gp.error = err; gp.generics stays empty, nothing is pushed to it
RECURSIVE GenericLoop(_, _, _)
GenericLoop(toks, i, err) ==
    IF ~InBounds(toks, i) THEN Abort("oob", i)
    ELSE IF check(toks, i, <<">">>) THEN [abort |-> "no", index |-> i, some |-> TRUE, error |-> err]
    ELSE IF ~check(toks, i, W_type)
    THEN [abort |-> "no", index |-> i, some |-> TRUE,
          error |-> ParserError("InvalidSyntax", get_line(pcurrent(toks, i)),
                                get_line(pcurrent(toks, i)),
                                "Expected a 'type' keyword, found",
                                get_lexeme(pcurrent(toks, i)))]
    ELSE LET id == parse_identifier(toks, i)
         IN  IF id.abort # "no" THEN Abort(id.abort, id.index)
             ELSE IF ~check(toks, id.index, W_impl)
             THEN IF ~check(toks, id.index, <<",">>)
                  THEN [abort |-> "no", index |-> id.index, some |-> TRUE,
                        error |-> ParserError("InvalidSyntax",
                                    get_line(pcurrent(toks, id.index)),
                                    get_col(pcurrent(toks, id.index)),
                                    "Expected a keyword 'impl' or a separator ',', found",
                                    get_lexeme(pcurrent(toks, id.index)))]
                  ELSE GenericLoop(toks, id.index, err)
             ELSE LET id2 == parse_identifier(toks, id.index)
                  IN  IF id2.abort # "no" THEN Abort(id2.abort, id2.index)
                      ELSE IF ~check(toks, id2.index, <<",">>)
                      THEN GenericLoop(toks, id2.index,
                               ParserError("InvalidSyntax",
                                    get_line(pcurrent(toks, id2.index)),
                                    get_col(pcurrent(toks, id2.index)),
                                    "Expected a separator ',' , found",
                                    get_lexeme(pcurrent(toks, id2.index))))
                      ELSE GenericLoop(toks, id2.index, err)

\* Parser::parse_generic_parameters: `some` is whether it returns Some(gp)
parse_generic_parameters(toks, i) ==
    IF ~InBounds(toks, i) THEN Abort("oob", i)
    ELSE IF ~check(toks, i, <<"<">>)
    THEN [abort |-> "no", index |-> i, some |-> FALSE, error |-> NoError]
    ELSE GenericLoop(toks, i, NoError)

\* Parser::parse_fn_parameters and Parser::parse_block are todo!()
parse_fn_parameters(toks, i) == Abort("todo", i)

\* Parser::parse_fn, called with the cursor on `fn`
parse_fn(toks, i, is_pub, is_const) ==
    LET id == parse_identifier(toks, i + 1)
    IN  IF id.abort # "no" THEN Abort(id.abort, id.index)
        ELSE IF id.node.error # NoError
        THEN [abort |-> "no", index |-> id.index,
              decl |-> FunctionDeclaration(id.node, is_pub, is_const, id.node.error)]
        ELSE LET generics == parse_generic_parameters(toks, id.index)
             IN  IF generics.abort # "no" THEN Abort(generics.abort, generics.index)
                 ELSE IF generics.some /\ generics.error # NoError
                 THEN [abort |-> "no", index |-> generics.index,
                       decl |-> FunctionDeclaration(id.node, is_pub, is_const, generics.error)]
                 ELSE parse_fn_parameters(toks, generics.index)

\* the error declaration for const in front of a type keyword (the messages
\* are the source's without their backquotes)
ConstError(toks, i, text) ==
    ErrorDeclaration(ParserError("InvalidSyntax", get_line(pcurrent(toks, i)),
                                 get_col(pcurrent(toks, i)), text, <<>>))

\* Parser::parse_declaration
parse_declaration(toks, i0) ==
    IF ~InBounds(toks, i0) THEN Abort("oob", i0)
    ELSE LET is_pub == check(toks, i0, W_pub)
             i == IF is_pub THEN i0 + 1 ELSE i0
         IN  IF ~InBounds(toks, i) THEN Abort("oob", i)
             ELSE LET is_const == check(toks, i, W_const)
                  IN  IF check(toks, i, W_fn) THEN parse_fn(toks, i, is_pub, is_const)
                      ELSE IF check(toks, i, W_enum) /\ is_const
                      THEN [abort |-> "no", index |-> i, decl |->
                            ConstError(toks, i, "The const keyword cannot be used with enum types.")]
                      ELSE IF check(toks, i, W_struct) /\ is_const
                      THEN [abort |-> "no", index |-> i, decl |->
                            ConstError(toks, i, "The const keyword cannot be used with struct types.")]
                      ELSE IF check(toks, i, W_intf) /\ is_const
                      THEN [abort |-> "no", index |-> i, decl |->
                            ConstError(toks, i, "The const keyword cannot be used with intf types.")]
                      ELSE [abort |-> "no", index |-> i, decl |->
                            ErrorDeclaration(ParserError("UnexpectedToken",
                                get_line(pcurrent(toks, i)), get_col(pcurrent(toks, i)),
                                "", get_lexeme(pcurrent(toks, i))))]

(***************************************************************************)
(* Inputs                                                                  *)
(***************************************************************************)
\* the characters of the three families of source texts
NumChars == {"0", "1", "9", "x", "o", "b", "e", "z", ".", "+", " ", "D9"}
QuoteChars == {"\"", "'", "\\", "a", "\n", "C3"}
CommentChars == {"/", "*", "\n", "a", " ", "C3", ";"}

\* the texts of at most n characters over A
Texts(A, n) == UNION {[1..k -> A] : k \in 0..n}

\* the bytes of a text given as a sequence of characters
RECURSIVE Flatten(_)
Flatten(chars) == IF chars = <<>> THEN <<>> ELSE Bytes(Head(chars)) \o Flatten(Tail(chars))

\* texts named by the specification and the tests, and one or two for each
\* branch the families do not reach
ExampleTexts == {
    <<"1", "2", "3">>,
    <<"0", "x", "F", "F">>,
    <<"0", "x", "Z", "Z">>,
    <<"\"", "a", "b", "c">>,
    <<"1", ".", "5", "e", "+", "1", "0">>,
    <<"0", "o", "1", "7">>, <<"0", "o", "9">>,
    <<"0", "b", "1", "0">>, <<"0", "b", "2">>,
    <<"0", "X", "a", "e", " ", "0", "O", "7", " ", "0", "B", "1">>,
    <<"1", "D9">>,
    <<"2", "3", ".", "0", "5", " ", "-", "1", "0", "0">>,
    <<"f", "n", " ", "m", "(", ")", "{", "}">>,
    <<"p", "u", "b", " ", "c", "o", "n", "s", "t", " ", "e", "n", "u", "m">>,
    <<"u", "8", " ", "x", "=", "'", "a", "'", ";">>,
    <<"\"", "a", "\\", "\"", "b", "\"">>,
    <<"a", "\t", "\"", "C3", "\"", "\r", "\n", "/", "/", "C3", "\n", "b">>,
    <<"/", "*", "\n", "*", "/", "x", "/", "*", "a">> }

\* every word of the two tables alone, and words that are none of them
WordTexts ==
    DATA_TYPES \cup KEYWORDS \cup {
        <<"u", "8", " ", "i", "f", " ", "i", "f", "x">>,
        <<"u", "8", "x", ";", "f", "n", "(", "C3", "f", "n", ")">>,
        <<"i", "n", "t", "f", "\n", "t", "y", "p", "e", "\t", "a", "\"", "b">> }

\* the digits of 2^64 in each radix: a one and the zeros after it
Pow64Digits(radix) ==
    CASE radix = 16 -> [i \in 1..17 |-> IF i = 1 THEN "1" ELSE "0"]
      [] radix = 8 -> [i \in 1..22 |-> IF i = 1 THEN "2" ELSE "0"]
      [] radix = 2 -> [i \in 1..65 |-> IF i = 1 THEN "1" ELSE "0"]
      [] radix = 10 -> <<"1", "8", "4", "4", "6", "7", "4", "4", "0", "7",
                         "3", "7", "0", "9", "5", "5", "1", "6", "1", "6">>

RadixPrefix(radix) ==
    CASE radix = 16 -> <<"0", "x">> [] radix = 8 -> <<"0", "o">>
      [] radix = 2 -> <<"0", "b">> [] radix = 10 -> <<>>

\* the largest literal of 64 bits and the smallest one beyond them in each
\* radix, each followed by another literal
OverflowTexts ==
    UNION {{RadixPrefix(r) \o MaxDigits(r) \o <<" ", "1">>,
            RadixPrefix(r) \o Pow64Digits(r) \o <<" ", "1">>,
            RadixPrefix(r) \o <<"0">> \o Pow64Digits(r)} : r \in {2, 8, 10, 16}}

LexInputs ==
    {Flatten(t) : t \in Texts(NumChars, MaxNumLen) \cup Texts(QuoteChars, MaxQuoteLen)
                        \cup Texts(CommentChars, MaxCommentLen) \cup ExampleTexts
                        \cup WordTexts \cup OverflowTexts}

\* the kinds and lexemes of the tokens given to the parser
Vocabulary == {
    [kind |-> "Keyword", lexeme |-> W_pub], [kind |-> "Keyword", lexeme |-> W_const],
    [kind |-> "Keyword", lexeme |-> W_fn], [kind |-> "Keyword", lexeme |-> W_enum],
    [kind |-> "Keyword", lexeme |-> W_struct], [kind |-> "Keyword", lexeme |-> W_impl],
    [kind |-> "Identifier", lexeme |-> W_intf], [kind |-> "Identifier", lexeme |-> W_type],
    [kind |-> "Identifier", lexeme |-> <<"x">>],
    [kind |-> "Operator", lexeme |-> <<"<">>], [kind |-> "Operator", lexeme |-> <<">">>],
    [kind |-> "Separator", lexeme |-> <<",">>],
    [kind |-> "Error", lexeme |-> <<"0", "x">>] }

V(kind, lexeme) == [kind |-> kind, lexeme |-> lexeme]

\* well-formed declarations, and the declaration named by the specification
FnMain == <<V("Keyword", W_fn), V("Identifier", <<"m">>), V("Separator", <<"(">>),
            V("Separator", <<")">>), V("Separator", <<"{">>), V("Separator", <<"}">>)>>
EnumE == <<V("Keyword", W_enum), V("Identifier", <<"E">>), V("Separator", <<"{">>),
           V("Separator", <<"}">>)>>
StructS == <<V("Keyword", W_struct), V("Identifier", <<"S">>), V("Separator", <<"{">>),
             V("Separator", <<"}">>)>>
IntfI == <<V("Identifier", W_intf), V("Identifier", <<"I">>), V("Separator", <<"{">>),
           V("Separator", <<"}">>)>>
FnGeneric == <<V("Keyword", W_fn), V("Identifier", <<"f">>), V("Operator", <<"<">>),
               V("Identifier", W_type), V("Identifier", <<"T">>), V("Operator", <<">">>),
               V("Separator", <<"(">>), V("Separator", <<")">>), V("Separator", <<"{">>),
               V("Separator", <<"}">>)>>
PubConstEnum == <<V("Keyword", W_pub), V("Keyword", W_const), V("Keyword", W_enum)>>

WellFormed == {FnMain, EnumE, StructS, IntfI, FnGeneric}

\* the k-th token of the buffer: tokens of the second line of a source, three
\* columns apart
PToken(v, k) ==
    IF v.kind = "Error" THEN ErrTok("InvalidHexaDecimal", 2, 3 * (k - 1), v.lexeme)
    ELSE Tok(v.kind, 2, 3 * (k - 1), v.lexeme)

\* the output of lex for a source of these words: the tokens, then Eof
TokenBuffer(vs) == [k \in 1..Len(vs) |-> PToken(vs[k], k)] \o <<Eof>>

ParseInputs ==
    {TokenBuffer(vs) : vs \in Texts(Vocabulary, MaxTokens) \cup WellFormed \cup {PubConstEnum}}

(***************************************************************************)
(* The lexer as a state machine: Lexer::new, then calls of Lexer::lex, one *)
(* step per iteration of its loop                                          *)
(***************************************************************************)
(***************************************************************************)
(* Digests: cache::get_hash                                                *)
(***************************************************************************)
\* the content of a path that names no file (file contents are sequences of
\* byte values 0..255)
NoFile == <<-1>>

\* Sha512::new: the chaining value, the bytes of the block that is not yet
\* full, the number of bytes taken
Sha512_new == [h |-> 5381, buf |-> <<>>, n |-> 0]

RECURSIVE BlockSum(_, _)
BlockSum(block, k) ==
    IF k > Len(block) THEN 0 ELSE (k + 1) * block[k] + BlockSum(block, k + 1)

\* the compression function: the next chaining value from the last one and a
\* full block (an arithmetic stand-in for the compression function of
\* SHA-512)
compress(h, block) == (h * 33 + BlockSum(block, 1) + 1) % 65521

\* the hasher after taking the bytes of data one by one, compressing each
\* block as it fills
RECURSIVE Absorb(_, _)
Absorb(hs, data) ==
    IF data = <<>> THEN hs
    ELSE LET buf == Append(hs.buf, Head(data))
         IN  Absorb(IF Len(buf) >= BlockLen
                    THEN [h |-> compress(hs.h, buf), buf |-> <<>>, n |-> hs.n + 1]
                    ELSE [h |-> hs.h, buf |-> buf, n |-> hs.n + 1],
                    Tail(data))

\* an update that hashes each chunk on its own: the bytes of a block left
\* unfinished by the chunk are dropped
updatePerChunk(hs, data) == [Absorb(hs, data) EXCEPT !.buf = <<>>]

\* Digest::update
update(hs, data) == Absorb(hs, data)

\* the padding: the byte 0x80, then zeros up to the end of the block
RECURSIVE PadZeros(_)
PadZeros(hs) == IF hs.buf = <<>> THEN hs ELSE PadZeros(Absorb(hs, <<0>>))

\* Digest::finalize: the 64 bytes of the hash
finalize(hs) ==
    LET padded == PadZeros(Absorb(hs, <<128>>))
        last == compress(padded.h, [k \in 1..BlockLen |-> hs.n % 256])
    IN  [j \in 1..64 |-> ((last + j) * (2 * j + 1)) % 256]

HexChars == <<"0", "1", "2", "3", "4", "5", "6", "7", "8", "9", "a", "b", "c", "d", "e", "f">>

\* hex::encode
hex_encode(bytes) ==
    [k \in 1..(2 * Len(bytes)) |->
        IF k % 2 = 1 THEN HexChars[(bytes[(k + 1) \div 2] \div 16) + 1]
        ELSE HexChars[(bytes[k \div 2] % 16) + 1]]

\* how many bytes of the hash get_hash keeps: `&result[..16]`
DigestBytes == 16

\* the digest get_hash returns for a file of these bytes when the reader
\* hands them over in one piece
DigestOf(content) ==
    hex_encode(SubSeq(finalize(update(Sha512_new, content)), 1, DigestBytes))

\* the result of get_hash: Ok(digest) or Err
HashOk(p, digest, reads) == [path |-> p, ok |-> TRUE, digest |-> digest, reads |-> reads]
HashErr(p) == [path |-> p, ok |-> FALSE, digest |-> <<>>, reads |-> 0]

HashOff ==
    /\ hfile = <<>>
    /\ hpos = 0
    /\ hreads = 0
    /\ hasher = Sha512_new
    /\ hdone = <<>>

CacheOff ==
    /\ cachedir = <<>>
    /\ wpc = <<>>
    /\ wjob = <<>>
    /\ wres = <<>>
    /\ stored = <<>>
    /\ saved = {}
    /\ nsaves = 0
    /\ compiled = <<>>

DriverOff ==
    /\ dpc = "off"
    /\ dfiles = <<>>
    /\ ddigest = <<>>
    /\ dlog = <<>>
    /\ dstages = <<>>

FsOff ==
    /\ fs = <<>>
    /\ HashOff
    /\ CacheOff
    /\ DriverOff

\* the value of `first` while no second Parser value was constructed
NoOutcome == [ppc |-> "none", ast |-> <<>>, has_error |-> FALSE]

ParserOff ==
    /\ ptokens = <<>>
    /\ index = 0
    /\ phas_error = FALSE
    /\ ast = <<>>
    /\ ppc = "off"
    /\ attempts = 0
    /\ first = NoOutcome

\* Lexer::new
LexInit ==
    /\ input \in LexInputs
    /\ line = 1
    /\ col = 0
    /\ tokens = <<>>
    /\ has_error = FALSE
    /\ pc = "new"
    /\ returned = <<>>
    /\ calls = 0
    /\ starts = <<>>
    /\ ParserOff
    /\ FsOff

\* the effect of one handler's result r on the lexer
Apply(r) ==
    IF r.panic
    THEN /\ pc' = "panic"
         /\ UNCHANGED <<input, line, col, tokens, has_error, returned, calls, starts>>
    ELSE /\ col' = r.col
         /\ tokens' = tokens \o r.toks
         /\ has_error' = (has_error \/ r.err)
         /\ starts' = starts \o [i \in 1..Len(r.toks) |-> col]
         /\ UNCHANGED <<input, line, pc, returned, calls>>

Scanning == pc = "scan" /\ col < Len(input)

\* a call of lex on the Lexer value
LexCall ==
    /\ pc \in {"new", "ret"}
    /\ calls < MaxCalls
    /\ pc' = "scan"
    /\ calls' = calls + 1
    /\ UNCHANGED <<input, line, col, tokens, has_error, returned, starts>>

LexNumber ==
    /\ Scanning
    /\ current(input, col) \in Numeric
    /\ Apply(number(input, line, col))
    /\ UNCHANGED <<parvars, fsvars>>

LexSeparator ==
    /\ Scanning
    /\ current(input, col) \notin Numeric
    /\ is_separator(current(input, col))
    /\ Apply(Done(advance(input, col),
                  <<Tok("Separator", line, col, <<current(input, col)>>)>>, FALSE))
    /\ UNCHANGED <<parvars, fsvars>>

LexOperator ==
    /\ Scanning
    /\ current(input, col) \notin Numeric \cup Separators
    /\ is_operator(current(input, col))
    /\ Apply(handle_operator(input, line, col))
    /\ UNCHANGED <<parvars, fsvars>>

LexWhitespace ==
    /\ Scanning
    /\ current(input, col) \notin Numeric \cup Separators \cup Operators
    /\ current(input, col) \in Whitespace
    /\ line' = IF current(input, col) = "\n" THEN line + 1 ELSE line
    /\ col' = advance(input, col)
    /\ UNCHANGED <<input, tokens, has_error, pc, returned, calls, starts>>
    /\ UNCHANGED <<parvars, fsvars>>

LexString ==
    /\ Scanning
    /\ current(input, col) \notin Numeric \cup Separators \cup Operators \cup Whitespace
    /\ current(input, col) = "\""
    /\ Apply(handle_string_literal(input, line, col))
    /\ UNCHANGED <<parvars, fsvars>>

LexChar ==
    /\ Scanning
    /\ current(input, col) \notin Numeric \cup Separators \cup Operators \cup Whitespace
    /\ current(input, col) = "'"
    /\ Apply(handle_char_literal(input, line, col))
    /\ UNCHANGED <<parvars, fsvars>>

LexWord ==
    /\ Scanning
    /\ current(input, col) \notin
           Numeric \cup Separators \cup Operators \cup Whitespace \cup {"\"", "'"}
    /\ Apply(IF current(input, col) = "PANIC" THEN Panic(col)
             ELSE keyword_or_datatype_or_identifier(input, line, col))
    /\ UNCHANGED <<parvars, fsvars>>

\* the list lex returns: self.tokens.clone(), after the push of Eof
ReturnedList(toks) == Append(toks, Eof)

\* the end of lex: the loop is over, Eof is pushed, the list is returned
LexReturn ==
    /\ pc = "scan"
    /\ col >= Len(input)
    /\ tokens' = Append(tokens, Eof)
    /\ returned' = ReturnedList(tokens)
    /\ starts' = Append(starts, col)
    /\ pc' = "ret"
    /\ UNCHANGED <<input, line, col, has_error, calls>>
    /\ UNCHANGED <<parvars, fsvars>>

LexNext ==
    \/ LexCall /\ UNCHANGED <<parvars, fsvars>>
    \/ LexNumber
    \/ LexSeparator
    \/ LexOperator
    \/ LexWhitespace
    \/ LexString
    \/ LexChar
    \/ LexWord
    \/ LexReturn

LexSpec == LexInit /\ [][LexNext]_vars

(***************************************************************************)
(* The parser as a state machine: Parser::new, then Parser::parse, one     *)
(* step per iteration of its loop                                          *)
(***************************************************************************)
LexerOff ==
    /\ input = <<>>
    /\ line = 1
    /\ col = 0
    /\ tokens = <<>>
    /\ has_error = FALSE
    /\ pc = "off"
    /\ returned = <<>>
    /\ calls = 0
    /\ starts = <<>>

\* Parser::new
ParseInit ==
    /\ ptokens \in ParseInputs
    /\ index = 0
    /\ phas_error = FALSE
    /\ ast = <<>>
    /\ ppc = "new"
    /\ attempts = 0
    /\ first = NoOutcome
    /\ LexerOff
    /\ FsOff

\* the call of parse
ParseCall ==
    /\ ppc = "new"
    /\ ppc' = "parse"
    /\ ast' = <<>>
    /\ UNCHANGED <<ptokens, index, phas_error, attempts, first>>
    /\ UNCHANGED <<lexvars, fsvars>>

\* `self.index += 1` after the declaration, with none of it (a loop that
\* relies on the declaration to move the cursor)
NextAttemptNone(i) == i

\* `self.index += 1` after the declaration
NextAttempt(i) == i + 1

\* an iteration of a parse that takes the tokens it has read out of the
\* buffer (a draining loop)
ParseStepDraining ==
    /\ ppc = "parse"
    /\ ~peof(ptokens, index)
    /\ LET r == parse_declaration(ptokens, index)
       IN  IF r.abort # "no"
           THEN /\ ppc' = r.abort
                /\ index' = r.index
                /\ UNCHANGED <<ptokens, phas_error, ast>>
           ELSE /\ ast' = Append(ast, r.decl)
                /\ index' = 0
                /\ ptokens' = SubSeq(ptokens, NextAttempt(r.index) + 1, Len(ptokens))
                /\ UNCHANGED <<phas_error, ppc>>
    /\ attempts' = attempts + 1
    /\ UNCHANGED first
    /\ UNCHANGED <<lexvars, fsvars>>

\* one iteration of the loop of parse: push parse_declaration(), index += 1
ParseStep ==
    /\ ppc = "parse"
    /\ ~peof(ptokens, index)
    /\ LET r == parse_declaration(ptokens, index)
       IN  IF r.abort # "no"
           THEN /\ ppc' = r.abort
                /\ index' = r.index
                /\ UNCHANGED <<ptokens, phas_error, ast>>
           ELSE /\ ast' = Append(ast, r.decl)
                /\ index' = NextAttempt(r.index)
                /\ UNCHANGED <<ptokens, phas_error, ppc>>
    /\ attempts' = attempts + 1
    /\ UNCHANGED first
    /\ UNCHANGED <<lexvars, fsvars>>

\* the end of parse
ParseReturn ==
    /\ ppc = "parse"
    /\ peof(ptokens, index)
    /\ ppc' = "ret"
    /\ UNCHANGED <<ptokens, index, phas_error, ast, attempts, first>>
    /\ UNCHANGED <<lexvars, fsvars>>

ParseNext == ParseCall \/ ParseStep \/ ParseReturn

ParseSpec == ParseInit /\ [][ParseNext]_vars

(***************************************************************************)
(* Two Parser values constructed from equal token sequences, each run once *)
(***************************************************************************)
\* Longest token sequence given to the two parsers, the trailing Eof not counted.
MaxReparseTokens == 3

ReparseInputs ==
    {TokenBuffer(vs) : vs \in Texts(Vocabulary, MaxReparseTokens) \cup WellFormed
                                 \cup {PubConstEnum}}

ReparseInit ==
    /\ ptokens \in ReparseInputs
    /\ index = 0
    /\ phas_error = FALSE
    /\ ast = <<>>
    /\ ppc = "new"
    /\ attempts = 0
    /\ first = NoOutcome
    /\ LexerOff
    /\ FsOff

\* the first parse is over (it returned or aborted): Parser::new on a token
\* sequence equal to the first one's
ParseAgain ==
    /\ ppc \in {"ret", "oob", "todo"}
    /\ first = NoOutcome
    /\ first' = [ppc |-> ppc, ast |-> ast, has_error |-> phas_error]
    /\ ptokens' = ptokens
    /\ index' = 0
    /\ phas_error' = FALSE
    /\ ast' = <<>>
    /\ ppc' = "new"
    /\ attempts' = 0
    /\ UNCHANGED <<lexvars, fsvars>>

ReparseNext == ParseCall \/ ParseStep \/ ParseReturn \/ ParseAgain

ReparseSpec == ReparseInit /\ [][ReparseNext]_vars

(***************************************************************************)
(* get_hash as a state machine: one step per read of the file              *)
(***************************************************************************)
FileBytes == {0, 1}

Contents == UNION {[1..k -> FileBytes] : k \in 0..MaxFileLen}

\* paths are sequences, so that a digest can be one
SourcePaths == {<<"a.zx">>, <<"b.zx">>}

\* a path that names no file
MissingPath == <<"none.zx">>

HashInit ==
    /\ \E f \in [SourcePaths -> Contents] :
          fs = [p \in SourcePaths \cup {MissingPath} |->
                   IF p = MissingPath THEN NoFile ELSE f[p]]
    /\ HashOff
    /\ CacheOff
    /\ DriverOff
    /\ LexerOff
    /\ ParserOff

\* File::open succeeds; BufReader::new, Sha512::new
HashOpen(p) ==
    /\ hfile = <<>>
    /\ Len(hdone) < MaxHashes
    /\ fs[p] # NoFile
    /\ hfile' = p
    /\ hpos' = 0
    /\ hreads' = 0
    /\ hasher' = Sha512_new
    /\ UNCHANGED <<fs, hdone>>
    /\ UNCHANGED <<cachedir, workvars, drivervars, lexvars, parvars>>

\* File::open fails: get_hash returns Err
HashOpenFails(p) ==
    /\ hfile = <<>>
    /\ Len(hdone) < MaxHashes
    /\ fs[p] = NoFile
    /\ hdone' = Append(hdone, HashErr(p))
    /\ UNCHANGED <<fs, hfile, hpos, hreads, hasher>>
    /\ UNCHANGED <<cachedir, workvars, drivervars, lexvars, parvars>>

\* reader.read returns k > 0 bytes, at most the buffer's size and what is
\* left of the file; hasher.update(&buffer[..k])
HashRead(k) ==
    /\ hfile # <<>>
    /\ k >= 1
    /\ k <= ReadBuf
    /\ hpos + k <= Len(fs[hfile])
    /\ hasher' = update(hasher, SubSeq(fs[hfile], hpos + 1, hpos + k))
    /\ hpos' = hpos + k
    /\ hreads' = hreads + 1
    /\ UNCHANGED <<fs, hfile, hdone>>
    /\ UNCHANGED <<cachedir, workvars, drivervars, lexvars, parvars>>

\* reader.read returns 0: finalize, hex::encode of the first 16 bytes
HashFinish ==
    /\ hfile # <<>>
    /\ hpos = Len(fs[hfile])
    /\ hdone' = Append(hdone,
                    HashOk(hfile, hex_encode(SubSeq(finalize(hasher), 1, DigestBytes)), hreads))
    /\ hfile' = <<>>
    /\ UNCHANGED <<fs, hpos, hreads, hasher>>
    /\ UNCHANGED <<cachedir, workvars, drivervars, lexvars, parvars>>

HashNext ==
    \/ \E p \in SourcePaths : HashOpen(p)
    \/ HashOpenFails(MissingPath)
    \/ \E k \in 1..ReadBuf : HashRead(k)
    \/ HashFinish

HashSpec == HashInit /\ [][HashNext]_vars

(***************************************************************************)
(* The cache file of a tree: bincode::serialize and bincode::deserialize   *)
(***************************************************************************)
\* the characters of codes 32..126 in order; "60" stands for the backquote
Ascii ==
    <<" ", "!", "\"", "#", "$", "%", "&", "'", "(", ")", "*", "+", ",",
      "-", ".", "/", "0", "1", "2", "3", "4", "5", "6", "7", "8", "9", ":",
      ";", "<", "=", ">", "?", "@", "A", "B", "C", "D", "E", "F", "G", "H",
      "I", "J", "K", "L", "M", "N", "O", "P", "Q", "R", "S", "T", "U", "V",
      "W", "X", "Y", "Z", "[", "\\", "]", "^", "_", "60", "a", "b", "c",
      "d", "e", "f", "g", "h", "i", "j", "k", "l", "m", "n", "o", "p", "q",
      "r", "s", "t", "u", "v", "w", "x", "y", "z", "{", "|", "}", "~">>

\* the byte of a character of a String (a character of two bytes is two
\* elements of the model's strings, each one byte)
CharCode(ch) ==
    CASE ch = "\t" -> 9 [] ch = "\n" -> 10 [] ch = "\r" -> 13
      [] ch = "C3" -> 195 [] ch = "A9" -> 169 [] ch = "D9" -> 217 [] ch = "A3" -> 163
      [] OTHER -> 31 + (CHOOSE i \in DOMAIN Ascii : Ascii[i] = ch)

KnownCode(n) == n \in {9, 10, 13, 195, 169, 217, 163} \/ (n >= 32 /\ n <= 126)

CodeChar(n) ==
    CASE n = 9 -> "\t" [] n = 10 -> "\n" [] n = 13 -> "\r"
      [] n = 195 -> "C3" [] n = 169 -> "A9" [] n = 217 -> "D9" [] n = 163 -> "A3"
      [] OTHER -> Ascii[n - 31]

\* the texts of the parser's messages, character by character

MsgType ==
    <<"E", "x", "p", "e", "c", "t", "e", "d", " ", "a", " ", "'", "t", "y",
      "p", "e", "'", " ", "k", "e", "y", "w", "o", "r", "d", ",", " ", "f",
      "o", "u", "n", "d", " ", "'">>

MsgImplOrComma ==
    <<"E", "x", "p", "e", "c", "t", "e", "d", " ", "a", " ", "k", "e", "y",
      "w", "o", "r", "d", " ", "'", "i", "m", "p", "l", "'", " ", "o", "r",
      " ", "a", " ", "s", "e", "p", "a", "r", "a", "t", "o", "r", " ", "'",
      ",", "'", ",", " ", "f", "o", "u", "n", "d", " ", "'">>

MsgComma ==
    <<"E", "x", "p", "e", "c", "t", "e", "d", " ", "a", " ", "s", "e", "p",
      "a", "r", "a", "t", "o", "r", " ", "'", ",", "'", " ", ",", " ", "f",
      "o", "u", "n", "d", " ", "'">>

MsgConstEnum ==
    <<"T", "h", "e", " ", "60", "c", "o", "n", "s", "t", "60", " ", "k",
      "e", "y", "w", "o", "r", "d", " ", "c", "a", "n", "n", "o", "t", " ",
      "b", "e", " ", "u", "s", "e", "d", " ", "w", "i", "t", "h", " ",
      "60", "e", "n", "u", "m", "60", " ", "t", "y", "p", "e", "s", ".">>

MsgConstStruct ==
    <<"T", "h", "e", " ", "60", "c", "o", "n", "s", "t", "60", " ", "k",
      "e", "y", "w", "o", "r", "d", " ", "c", "a", "n", "n", "o", "t", " ",
      "b", "e", " ", "u", "s", "e", "d", " ", "w", "i", "t", "h", " ",
      "60", "s", "t", "r", "u", "c", "t", "60", " ", "t", "y", "p", "e",
      "s", ".">>

MsgConstIntf ==
    <<"T", "h", "e", " ", "60", "c", "o", "n", "s", "t", "60", " ", "k",
      "e", "y", "w", "o", "r", "d", " ", "c", "a", "n", "n", "o", "t", " ",
      "b", "e", " ", "u", "s", "e", "d", " ", "w", "i", "t", "h", " ",
      "60", "i", "n", "t", "f", "60", " ", "t", "y", "p", "e", "s", ".">>

\* the String of a ParserError: the lexeme alone, or the lexeme inside the
\* message that format! builds
Message(e) ==
    CASE e.text = "" -> e.lexeme
      [] e.text = "Expected a 'type' keyword, found" -> MsgType \o e.lexeme \o <<"'", ".">>
      [] e.text = "Expected a keyword 'impl' or a separator ',', found" ->
             MsgImplOrComma \o e.lexeme \o <<"'", ".">>
      [] e.text = "Expected a separator ',' , found" -> MsgComma \o e.lexeme \o <<"'", ".">>
      [] e.text = "The const keyword cannot be used with enum types." -> MsgConstEnum
      [] e.text = "The const keyword cannot be used with struct types." -> MsgConstStruct
      [] e.text = "The const keyword cannot be used with intf types." -> MsgConstIntf

\* The values that are serialized: a tree as the sequence of its
\* declarations, each error with its String spelled out.
ErrorValue(e) ==
    IF e = NoError THEN [kind |-> "None", line |-> 0, col |-> 0, message |-> <<>>]
    ELSE [kind |-> e.kind, line |-> e.line, col |-> e.col, message |-> Message(e)]

IdentifierValue(i) == [id |-> i.id, error |-> ErrorValue(i.error)]

DeclarationValue(d) ==
    [kind |-> d.kind, is_pub |-> d.is_pub, is_const |-> d.is_const,
     id |-> IdentifierValue(d.id), error |-> ErrorValue(d.error)]

TreeValue(decls) == [k \in DOMAIN decls |-> DeclarationValue(decls[k])]

\* the variants of the enums, in the order of their declaration (bincode
\* writes the index of the variant)
TokenKinds ==
    <<"DataType", "Identifier", "Separator", "Operator", "Keyword", "IntLiteral",
      "FloatLiteral", "StringLiteral", "CharLiteral", "Error", "Eof">>

LexerErrorKinds ==
    <<"UnexpectedEOF", "InvalidBinary", "InvalidOctal", "InvalidDecimal",
      "InvalidHexaDecimal", "InvalidFloat", "UnterminatedStringLiteral",
      "UnterminatedCharacterLiteral", "UnterminatedComment">>

ParserErrorKinds == <<"UnexpectedToken", "MissingToken", "InvalidSyntax", "UnexpectedEOF">>

VariantIndex(kinds, kind) == (CHOOSE i \in DOMAIN kinds : kinds[i] = kind) - 1

\* bincode's fixed-width little-endian integers (the model's numbers fit two
\* bytes)
enc_u64(n) == <<n % 256, (n \div 256) % 256, 0, 0, 0, 0, 0, 0>>

enc_u32(n) == <<n % 256, (n \div 256) % 256, 0, 0>>

enc_bool(b) == <<IF b THEN 1 ELSE 0>>

\* a String: its length in bytes, then its bytes
enc_string(str) == enc_u64(Len(str)) \o [k \in DOMAIN str |-> CharCode(str[k])]

enc_fields(ln, c, str) == enc_u64(ln) \o enc_u64(c) \o enc_string(str)

enc_token(t) ==
    IF t.kind = "Eof" THEN enc_u32(VariantIndex(TokenKinds, "Eof"))
    ELSE IF t.kind = "Error"
    THEN enc_u32(VariantIndex(TokenKinds, "Error"))
         \o enc_u32(VariantIndex(LexerErrorKinds, t.err))
         \o enc_fields(t.line, t.col, t.lexeme)
    ELSE enc_u32(VariantIndex(TokenKinds, t.kind)) \o enc_fields(t.line, t.col, t.lexeme)

enc_option_token(t) == IF t = NoToken THEN <<0>> ELSE <<1>> \o enc_token(t)

enc_error(e) ==
    enc_u32(VariantIndex(ParserErrorKinds, e.kind)) \o enc_fields(e.line, e.col, e.message)

\* an Option<ParserError> that is not written (a field left out of the
\* serialized form, read back as None)
enc_option_error_skipped(e) == <<0>>

enc_option_error(e) == IF e.kind = "None" THEN <<0>> ELSE <<1>> \o enc_error(e)

enc_identifier(i) == enc_option_token(i.id) \o enc_option_error(i.error)

\* Declaration::Function is variant 2 (id, is_pub, is_const, generics None,
\* parameters None, a block of no statements, error), Declaration::Error is
\* variant 4
enc_declaration(d) ==
    IF d.kind = "Function"
    THEN enc_u32(2) \o enc_identifier(d.id) \o enc_bool(d.is_pub) \o enc_bool(d.is_const)
         \o <<0>> \o <<0>> \o enc_u64(0) \o enc_option_error(d.error)
    ELSE enc_u32(4) \o enc_error(d.error)

RECURSIVE enc_declarations(_)
enc_declarations(decls) ==
    IF decls = <<>> THEN <<>>
    ELSE enc_declaration(Head(decls)) \o enc_declarations(Tail(decls))

\* bincode::serialize(ast): AST {declarations: Vec<Box<Declaration>>}
serialize(tree) == enc_u64(Len(tree)) \o enc_declarations(tree)

\* What a reader of bytes b returns: a value and the position after it, or
\* an error.
Got(v, p) == [ok |-> TRUE, val |-> v, pos |-> p]

Bad == [ok |-> FALSE, val |-> 0, pos |-> 0]

\* an integer of w bytes at position p (a number that does not fit two bytes
\* is no number of the model: an error)
dec_int(b, p, w) ==
    IF p + w > Len(b) THEN Bad
    ELSE IF \E k \in 3..w : b[p + k] # 0 THEN Bad
    ELSE Got(b[p + 1] + 256 * b[p + 2], p + w)

dec_u64(b, p) == dec_int(b, p, 8)

dec_u32(b, p) == dec_int(b, p, 4)

dec_bool(b, p) ==
    IF p + 1 > Len(b) \/ b[p + 1] \notin {0, 1} THEN Bad ELSE Got(b[p + 1] = 1, p + 1)

\* the bytes of a String whose length was read as n
dec_bytes(b, n) ==
    IF ~n.ok THEN Bad
    ELSE IF n.pos + n.val > Len(b) THEN Bad
    ELSE IF \E k \in 1..n.val : ~KnownCode(b[n.pos + k]) THEN Bad
    ELSE Got([k \in 1..n.val |-> CodeChar(b[n.pos + k])], n.pos + n.val)

dec_string(b, p) == dec_bytes(b, dec_u64(b, p))

\* an Option that the parser leaves None: its tag 0 (a Some is no value of
\* the model: an error)
dec_none(b, p) == IF p + 1 > Len(b) \/ b[p + 1] # 0 THEN Bad ELSE Got(0, p + 1)

dec_field(b, p, type) ==
    CASE type = "usize" -> dec_u64(b, p)
      [] type = "bool" -> dec_bool(b, p)
      [] type = "String" -> dec_string(b, p)
      [] type = "None" -> dec_none(b, p)

\* fields of the given types one after the other, as serde's derived
\* visitors read them; the values read so far are acc
RECURSIVE dec_seq(_, _, _, _)
dec_seq(b, p, types, acc) ==
    IF types = <<>> THEN Got(acc, p)
    ELSE LET r == dec_field(b, p, Head(types))
         IN  IF r.ok THEN dec_seq(b, r.pos, Tail(types), Append(acc, r.val)) ELSE Bad

\* the fields (usize, usize, String) of a variant
dec_fields(b, p) == dec_seq(b, p, <<"usize", "usize", "String">>, <<>>)

\* a token of variant Error: the variant e of its LexerError and its fields f
dec_token_error(e, f) ==
    IF e.ok /\ e.val < Len(LexerErrorKinds) /\ f.ok
    THEN Got(ErrTok(LexerErrorKinds[e.val + 1], f.val[1], f.val[2], f.val[3]), f.pos)
    ELSE Bad

\* a token of another variant and its fields f
dec_token_fields(kind, f) ==
    IF f.ok THEN Got(Tok(kind, f.val[1], f.val[2], f.val[3]), f.pos) ELSE Bad

\* the token whose variant index was read as v
dec_token_variant(b, v) ==
    IF ~v.ok \/ v.val >= Len(TokenKinds) THEN Bad
    ELSE IF TokenKinds[v.val + 1] = "Eof" THEN Got(Eof, v.pos)
    ELSE IF TokenKinds[v.val + 1] = "Error"
    THEN dec_token_error(dec_u32(b, v.pos), dec_fields(b, dec_u32(b, v.pos).pos))
    ELSE dec_token_fields(TokenKinds[v.val + 1], dec_fields(b, v.pos))

dec_token(b, p) == dec_token_variant(b, dec_u32(b, p))

\* the tag of an Option: 0 for None, 1 for Some
dec_option_token(b, p) ==
    IF p + 1 > Len(b) \/ b[p + 1] \notin {0, 1} THEN Bad
    ELSE IF b[p + 1] = 0 THEN Got(NoToken, p + 1)
    ELSE dec_token(b, p + 1)

\* the ParserError of variant index v and fields f
dec_error_variant(v, f) ==
    IF v.ok /\ v.val < Len(ParserErrorKinds) /\ f.ok
    THEN Got([kind |-> ParserErrorKinds[v.val + 1], line |-> f.val[1],
              col |-> f.val[2], message |-> f.val[3]], f.pos)
    ELSE Bad

dec_error(b, p) == dec_error_variant(dec_u32(b, p), dec_fields(b, dec_u32(b, p).pos))

dec_option_error(b, p) ==
    IF p + 1 > Len(b) \/ b[p + 1] \notin {0, 1} THEN Bad
    ELSE IF b[p + 1] = 0 THEN Got(ErrorValue(NoError), p + 1)
    ELSE dec_error(b, p + 1)

\* the Identifier of fields id t and error e
dec_identifier_fields(t, e) ==
    IF t.ok /\ e.ok THEN Got([id |-> t.val, error |-> e.val], e.pos) ELSE Bad

dec_identifier(b, p) ==
    dec_identifier_fields(dec_option_token(b, p),
                          dec_option_error(b, dec_option_token(b, p).pos))

\* the FunctionDeclaration of id i, of the fields r (is_pub, is_const,
\* generics, parameters and the length of the block's statements) and of
\* error e; a block with statements is no value of the model: an error
dec_function_fields(i, r, e) ==
    IF i.ok /\ r.ok /\ r.val[5] = 0 /\ e.ok
    THEN Got([kind |-> "Function", is_pub |-> r.val[1], is_const |-> r.val[2],
              id |-> i.val, error |-> e.val], e.pos)
    ELSE Bad

dec_function_error(b, i, r) == dec_function_fields(i, r, dec_option_error(b, r.pos))

dec_function(b, i) ==
    dec_function_error(b, i, dec_seq(b, i.pos, <<"bool", "bool", "None", "None", "usize">>,
                                     <<>>))

\* the Declaration::Error of ParserError e
dec_declaration_error(e) ==
    IF e.ok
    THEN Got([kind |-> "Error", is_pub |-> FALSE, is_const |-> FALSE,
              id |-> IdentifierValue(NoIdentifier), error |-> e.val], e.pos)
    ELSE Bad

\* the declaration whose variant index was read as v: a Function (2) or an
\* Error (4); the variants the parser never builds are no values of the
\* model: an error
dec_declaration_variant(b, v) ==
    IF ~v.ok THEN Bad
    ELSE IF v.val = 2 THEN dec_function(b, dec_identifier(b, v.pos))
    ELSE IF v.val = 4 THEN dec_declaration_error(dec_error(b, v.pos))
    ELSE Bad

dec_declaration(b, p) == dec_declaration_variant(b, dec_u32(b, p))

\* the n declarations that remain of a Vec, after those of acc
RECURSIVE dec_declarations(_, _, _, _)
dec_declarations(b, p, n, acc) ==
    IF n = 0 THEN Got(acc, p)
    ELSE LET d == dec_declaration(b, p)
         IN  IF d.ok THEN dec_declarations(b, d.pos, n - 1, Append(acc, d.val)) ELSE Bad

\* a deserialize that gives the tree read so far, the empty one at worst,
\* when the bytes run out
deserialize_lenient(b) ==
    LET n == dec_u64(b, 0)
    IN  IF n.ok /\ dec_declarations(b, n.pos, n.val, <<>>).ok
        THEN dec_declarations(b, n.pos, n.val, <<>>)
        ELSE Got(<<>>, Len(b))

\* bincode::deserialize(&buffer): bytes after the tree are allowed
deserialize(b) ==
    LET n == dec_u64(b, 0)
    IN  IF n.ok THEN dec_declarations(b, n.pos, n.val, <<>>) ELSE Bad

(***************************************************************************)
(* The cache: save_ast_to_file, load_ast_from_file, file_exists_in_cache   *)
(***************************************************************************)
\* Parser::parse as a function of the token buffer: whether it aborted, and
\* the declarations pushed
RECURSIVE ParseLoop(_, _, _)
ParseLoop(toks, i, acc) ==
    IF peof(toks, i) THEN [abort |-> "no", ast |-> acc]
    ELSE LET r == parse_declaration(toks, i)
         IN  IF r.abort # "no" THEN [abort |-> r.abort, ast |-> acc]
             ELSE ParseLoop(toks, NextAttempt(r.index), Append(acc, r.decl))

parse(toks) == ParseLoop(toks, 0, <<>>)

\* token buffers whose trees are saved: no token at all, and the output of
\* lex for a few sources
TreeBuffers ==
    {<<>>, TokenBuffer(<<>>), TokenBuffer(PubConstEnum),
     TokenBuffer(<<V("Keyword", W_fn), V("Operator", <<"<">>)>>),
     TokenBuffer(<<V("Keyword", W_fn), V("Identifier", <<"x">>), V("Operator", <<"<">>)>>),
     TokenBuffer(<<V("Keyword", W_pub), V("Keyword", W_const), V("Keyword", W_fn),
                   V("Identifier", <<"x">>), V("Operator", <<"<">>)>>),
     TokenBuffer(<<V("Identifier", <<"C3", "A9">>), V("Error", <<"0", "x">>)>>)}

\* the trees parse returns for them
Trees == {TreeValue(parse(b).ast) : b \in {x \in TreeBuffers : parse(x).abort = "no"}}

\* the contents of the source files that are compiled
CacheContents == {<<>>, <<0>>}

CacheDigests == {DigestOf(c) : c \in CacheContents}

\* one name for every entry (a cache that keeps a single file)
cache_file_path_single(hash) == DigestOf(<<>>)

\* PathBuf::from(cache_dir).join(format!("{}.zxcache", hash)): the file of
\* the cache directory named by the digest
cache_file_path(hash) == hash

CachePaths == {cache_file_path(dg) : dg \in CacheDigests}

\* the content of path p, NoFile when nothing is there
FileAt(files, p) == IF p \in DOMAIN files THEN files[p] ELSE NoFile

\* a write of chunk at offset off of a file (a hole left by a truncation
\* reads as zeros)
WriteAt(content, off, chunk) ==
    LET base == IF Len(content) < off
                THEN content \o [k \in 1..(off - Len(content)) |-> 0]
                ELSE content
    IN  SubSeq(base, 1, off) \o chunk \o SubSeq(base, off + Len(chunk) + 1, Len(base))

\* file_exists_in_cache(file_path, cache_dir) with the file system `files`
\* and the cache directory `dir`
file_exists_in_cache(files, dir, p) ==
    IF FileAt(files, p) = NoFile THEN FALSE
    ELSE FileAt(dir, cache_file_path(DigestOf(files[p]))) # NoFile

\* Result<AST, io::Error>
Loaded(t) == [ok |-> TRUE, tree |-> t]

NotLoaded == [ok |-> FALSE, tree |-> <<>>]

\* load_ast_from_file: File::open, read_to_end, bincode::deserialize
load_ast_from_file(dir, p) ==
    IF FileAt(dir, p) = NoFile THEN NotLoaded
    ELSE LET r == deserialize(dir[p])
         IN  IF r.ok THEN Loaded(r.val) ELSE NotLoaded

\* what a worker did last
Result(op, p, ok, t) == [op |-> op, path |-> p, ok |-> ok, tree |-> t]

NoResult == Result("none", <<>>, FALSE, <<>>)

NoJob == [path |-> <<>>, digest |-> <<>>, tree |-> <<>>, bytes |-> <<>>, off |-> 0]

Workers == 1..MaxWorkers

(***************************************************************************)
(* The cache functions as a state machine: a save is File::create and then *)
(* the writes of write_all; exists and load are one step each              *)
(***************************************************************************)
CacheStart ==
    /\ \E f \in [SourcePaths -> CacheContents] :
          fs = [p \in SourcePaths \cup {MissingPath} |->
                   IF p = MissingPath THEN NoFile ELSE f[p]]
    /\ cachedir = [p \in CachePaths |-> NoFile]
    /\ wpc = [w \in Workers |-> "idle"]
    /\ wjob = [w \in Workers |-> NoJob]
    /\ wres = [w \in Workers |-> NoResult]
    /\ stored = [p \in CachePaths |-> NotLoaded]
    /\ saved = {}
    /\ nsaves = 0
    /\ HashOff
    /\ DriverOff
    /\ LexerOff
    /\ ParserOff

\* one process uses the cache
CacheInit ==
    /\ CacheStart
    /\ compiled = <<>>

\* bincode::serialize(ast), File::create(file_path): the file is created, or
\* truncated if it exists
SaveCreate(w, t, dg) ==
    /\ wpc[w] = "idle"
    /\ nsaves < MaxSaves
    /\ nsaves' = nsaves + 1
    /\ wpc' = [wpc EXCEPT ![w] = "writing"]
    /\ wjob' = [wjob EXCEPT ![w] = [path |-> cache_file_path(dg), digest |-> dg, tree |-> t,
                                    bytes |-> serialize(t), off |-> 0]]
    /\ cachedir' = [cachedir EXCEPT ![cache_file_path(dg)] = <<>>]
    /\ stored' = [stored EXCEPT ![cache_file_path(dg)] = NotLoaded]
    /\ saved' = saved \cup {dg}
    /\ UNCHANGED <<fs, wres, compiled>>
    /\ UNCHANGED <<hashvars, drivervars, lexvars, parvars>>

\* how many bytes a write of write_all takes when n remain: all of them, or
\* (a short write) WriteChunk of them
WriteSizes(n) == {n} \cup {k \in {WriteChunk} : k < n}

\* one write of file.write_all(&encoded); after the last one save returns Ok
SaveWrite(w, k) ==
    /\ wpc[w] = "writing"
    /\ LET j == wjob[w]
           last == j.off + k = Len(j.bytes)
           alone == \A v \in Workers \ {w} : ~(wpc[v] = "writing" /\ wjob[v].path = j.path)
       IN  /\ cachedir' = [cachedir EXCEPT ![j.path] =
                              WriteAt(cachedir[j.path], j.off,
                                      SubSeq(j.bytes, j.off + 1, j.off + k))]
           /\ wjob' = [wjob EXCEPT ![w].off = j.off + k]
           /\ wpc' = [wpc EXCEPT ![w] = IF last THEN "idle" ELSE "writing"]
           /\ wres' = [wres EXCEPT ![w] =
                          IF last THEN Result("save", j.path, TRUE, j.tree) ELSE wres[w]]
           /\ stored' = [stored EXCEPT ![j.path] =
                            IF last /\ alone THEN Loaded(j.tree) ELSE NotLoaded]
    /\ UNCHANGED <<fs, saved, nsaves, compiled>>
    /\ UNCHANGED <<hashvars, drivervars, lexvars, parvars>>

\* file_exists_in_cache(s, cache_dir)
Exists(w, s) ==
    /\ wpc[w] = "idle"
    /\ wres' = [wres EXCEPT ![w] =
                   Result("exists",
                          IF fs[s] = NoFile THEN <<>> ELSE cache_file_path(DigestOf(fs[s])),
                          file_exists_in_cache(fs, cachedir, s), <<>>)]
    /\ UNCHANGED <<fs, cachedir, wpc, wjob, stored, saved, nsaves, compiled>>
    /\ UNCHANGED <<hashvars, drivervars, lexvars, parvars>>

\* load_ast_from_file(p)
Load(w, p) ==
    /\ wpc[w] = "idle"
    /\ LET r == load_ast_from_file(cachedir, p)
       IN  wres' = [wres EXCEPT ![w] = Result("load", p, r.ok, r.tree)]
    /\ UNCHANGED <<fs, cachedir, wpc, wjob, stored, saved, nsaves, compiled>>
    /\ UNCHANGED <<hashvars, drivervars, lexvars, parvars>>

CacheNext ==
    \/ \E t \in Trees, dg \in CacheDigests : SaveCreate(1, t, dg)
    \/ \E k \in WriteSizes(Len(wjob[1].bytes) - wjob[1].off) : SaveWrite(1, k)
    \/ \E s \in SourcePaths \cup {MissingPath} : Exists(1, s)
    \/ \E p \in CachePaths : Load(1, p)

CacheSpec == CacheInit /\ [][CacheNext]_vars

(***************************************************************************)
(* Several workers that compile sources of identical content and use the   *)
(* cache entry of its digest, with no lock                                 *)
(***************************************************************************)
SharedSource == <<"a.zx">>

SharedDigest == DigestOf(fs[SharedSource])

\* every worker's compilation of the source gives the same tree
SharedInit ==
    /\ CacheStart
    /\ compiled \in Trees

SharedNext ==
    \E w \in Workers :
        \/ SaveCreate(w, compiled, SharedDigest)
        \/ \E k \in WriteSizes(Len(wjob[w].bytes) - wjob[w].off) : SaveWrite(w, k)
        \/ Exists(w, SharedSource)
        \/ Load(w, cache_file_path(SharedDigest))

SharedCacheSpec == SharedInit /\ [][SharedNext]_vars

(***************************************************************************)
(* Lexer::lex as a function of the source text                             *)
(***************************************************************************)
\* the handler lex calls for the character at the cursor
LexOne(inp, ln, c) ==
    LET ch == current(inp, c)
    IN  IF ch \in Numeric THEN number(inp, ln, c)
        ELSE IF is_separator(ch)
        THEN Done(advance(inp, c), <<Tok("Separator", ln, c, <<ch>>)>>, FALSE)
        ELSE IF is_operator(ch) THEN handle_operator(inp, ln, c)
        ELSE IF ch \in Whitespace THEN Done(advance(inp, c), <<>>, FALSE)
        ELSE IF ch = "\"" THEN handle_string_literal(inp, ln, c)
        ELSE IF ch = "'" THEN handle_char_literal(inp, ln, c)
        ELSE IF ch = "PANIC" THEN Panic(c)
        ELSE keyword_or_datatype_or_identifier(inp, ln, c)

RECURSIVE LexLoop(_, _, _, _, _)
LexLoop(inp, ln, c, toks, err) ==
    IF c >= Len(inp) THEN [panic |-> FALSE, tokens |-> Append(toks, Eof), has_error |-> err]
    ELSE LET r == LexOne(inp, ln, c)
         IN  IF r.panic THEN [panic |-> TRUE, tokens |-> toks, has_error |-> err]
             ELSE LexLoop(inp, IF current(inp, c) = "\n" THEN ln + 1 ELSE ln, r.col,
                          toks \o r.toks, err \/ r.err)

\* Lexer::new(inp) and one call of lex
lex(inp) == LexLoop(inp, 1, 0, <<>>, FALSE)

(***************************************************************************)
(* The driver: main                                                        *)
(***************************************************************************)
\* the text main gives to Lexer::new (each of its characters of three bytes
\* is written as the model's letter of two bytes)
HardCodedText ==
    Flatten(<<"\n", "i", "f", " ", "g", "o", " ", "t", "h", "e", "n", " ",
      "C3", "C3", "C3", "C3", "C3", "C3", " ", "r", "u", "n", " ", "{", "+",
      "=", "x", "}", " ", "\n", " ", "\"", "C3", "C3", "C3", "C3", "C3",
      "C3", "\\", "\"", "\"", " ", "\n", " ", "C3", "C3", "C3", "C3", "C3",
      "C3", "\"">>)

\* a stage main enters for the k-th file of the command line; lex_error is
\* lexer.has_error() when the stage is entered
Stage(k, stage, lex_error) == [file |-> k, stage |-> stage, lex_error |-> lex_error]

\* the body of the `if` with the test of lexer.has_error() left out: the
\* parser runs on whatever the lexer returned
CompileStagesUnguarded(k, l) ==
    <<Stage(k, "lex", FALSE), Stage(k, "parse", l.has_error)>>

\* the stages the body of the `if` enters for the result l of the lexer:
\* `if lexer.has_error() { ...; return; }` comes between lex and Parser::new
CompileStages(k, l) ==
    IF l.panic \/ l.has_error THEN <<Stage(k, "lex", FALSE)>>
    ELSE <<Stage(k, "lex", FALSE), Stage(k, "parse", l.has_error)>>

\* what main did with one file: `cached` is whether the cache held an entry
\* for the digest of the file when main looked; `skipped` whether main
\* took the branch without lexer and parser; `lexed` is what the lexer ran
\* on ("none", "file" or "literal")
Compiled(p, dg, cached, skipped, lexed, parsed, loaded, was_saved) ==
    [path |-> p, digest |-> dg, cached |-> cached, skipped |-> skipped, lexed |-> lexed,
     parsed |-> parsed, loaded |-> loaded, saved |-> was_saved]

(***************************************************************************)
(* main as a state machine: one pass of the loop over cli.files per file   *)
(***************************************************************************)
\* the files on the command line: one or more paths, a path possibly twice
FileLists == UNION {[1..k -> SourcePaths] : k \in 1..MaxFiles}

\* the cache directory holds any entries; the working directory may hold
\* files named like digests
DriverInit ==
    /\ \E f \in [SourcePaths -> CacheContents],
          g \in [CacheDigests -> CacheContents \cup {NoFile}] :
          fs = [p \in SourcePaths \cup CacheDigests |->
                   IF p \in SourcePaths THEN f[p] ELSE g[p]]
    /\ cachedir \in [CachePaths -> {NoFile, serialize(<<>>)}]
    /\ dfiles \in FileLists
    /\ dpc = "check"
    /\ ddigest = <<>>
    /\ dlog = <<>>
    /\ dstages = <<>>
    /\ wpc = <<>>
    /\ wjob = <<>>
    /\ wres = <<>>
    /\ stored = <<>>
    /\ saved = {}
    /\ nsaves = 0
    /\ compiled = <<>>
    /\ HashOff
    /\ LexerOff
    /\ ParserOff

\* cache::get_hash(file_path_str).unwrap(), and file_exists_in_cache called
\* with the digest in the place of the file path
DriverCheck ==
    /\ dpc = "check"
    /\ dfiles # <<>>
    /\ IF fs[Head(dfiles)] = NoFile
       THEN /\ dpc' = "panic"
            /\ UNCHANGED ddigest
       ELSE /\ ddigest' = DigestOf(fs[Head(dfiles)])
            /\ dpc' = IF file_exists_in_cache(fs, cachedir, DigestOf(fs[Head(dfiles)]))
                      THEN "hit" ELSE "miss"
    /\ dstages' = Append(dstages, Stage(Len(dlog) + 1, "lookup", FALSE))
    /\ UNCHANGED <<fs, cachedir, dfiles, dlog>>
    /\ UNCHANGED <<hashvars, workvars, lexvars, parvars>>

\* the test of main holds: the body of the `if` is skipped, nothing is loaded
DriverSkip ==
    /\ dpc = "hit"
    /\ dlog' = Append(dlog, Compiled(Head(dfiles), ddigest,
                                     FileAt(cachedir, cache_file_path(ddigest)) # NoFile,
                                     TRUE, "none", FALSE, FALSE, FALSE))
    /\ dfiles' = Tail(dfiles)
    /\ dpc' = "check"
    /\ UNCHANGED <<fs, cachedir, ddigest, dstages>>
    /\ UNCHANGED <<hashvars, workvars, lexvars, parvars>>

\* the body of the `if`: the lexer on the text of main, and, unless it has
\* an error (main returns), the parser; nothing is saved
DriverCompile ==
    /\ dpc = "miss"
    /\ LET l == lex(HardCodedText)
           cached == FileAt(cachedir, cache_file_path(ddigest)) # NoFile
       IN  IF l.panic THEN /\ dpc' = "panic"
                           /\ UNCHANGED <<dfiles, dlog>>
           ELSE IF l.has_error
           THEN /\ dpc' = "exit"
                /\ dlog' = Append(dlog, Compiled(Head(dfiles), ddigest, cached, FALSE,
                                                 "literal", FALSE, FALSE, FALSE))
                /\ UNCHANGED dfiles
           ELSE IF parse(l.tokens).abort # "no"
           THEN /\ dpc' = "panic"
                /\ UNCHANGED <<dfiles, dlog>>
           ELSE /\ dpc' = "check"
                /\ dlog' = Append(dlog, Compiled(Head(dfiles), ddigest, cached, FALSE,
                                                 "literal", TRUE, FALSE, FALSE))
                /\ dfiles' = Tail(dfiles)
    /\ dstages' = dstages \o CompileStages(Len(dlog) + 1, lex(HardCodedText))
    /\ UNCHANGED <<fs, cachedir, ddigest>>
    /\ UNCHANGED <<hashvars, workvars, lexvars, parvars>>

\* the loop over cli.files is over: main returns
DriverEnd ==
    /\ dpc = "check"
    /\ dfiles = <<>>
    /\ dpc' = "done"
    /\ UNCHANGED <<fs, cachedir, dfiles, ddigest, dlog, dstages>>
    /\ UNCHANGED <<hashvars, workvars, lexvars, parvars>>

DriverNext == DriverCheck \/ DriverSkip \/ DriverCompile \/ DriverEnd

DriverSpec == DriverInit /\ [][DriverNext]_vars

(***************************************************************************)
(* Properties                                                              *)
(***************************************************************************)
HasErrorToken(toks) == \E i \in DOMAIN toks : toks[i].kind = "Error"

FirstCallReturned == pc = "ret" /\ calls = 1

\* C1: every list lex returns, on any call, holds Eof exactly once, as its
\* last element.
C1_ReturnedEndsWithOneEof ==
    pc = "ret" =>
        /\ Len(returned) >= 1
        /\ returned[Len(returned)] = Eof
        /\ Cardinality({i \in DOMAIN returned : returned[i].kind = "Eof"}) = 1

\* C2: lex terminates: every iteration of the scanning loop moves the cursor
\* forward by at least one byte, never past the end of the input and without
\* a panic, and no step moves the cursor backwards (so the distance of the
\* cursor to the end of the input bounds the number of iterations of a
\* call, after which the loop condition fails and lex returns).
C2_LexTerminates ==
    /\ [][Scanning => (pc' # "panic" /\ col' > col /\ col' <= Len(input))]_vars
    /\ [][col' >= col]_vars
    /\ [](pc # "panic")

\* a call that took at least three steps over at least four bytes and returned
C2_Witness ==
    /\ FirstCallReturned
    /\ Len(input) >= 4
    /\ col = Len(input)
    /\ Len(returned) >= 4

Letters ==
    {"a", "b", "c", "d", "e", "f", "g", "h", "i", "j", "k", "l", "m", "n", "o", "p", "q",
     "r", "s", "t", "u", "v", "w", "x", "y", "z", "A", "B", "C", "D", "E", "F", "G", "H",
     "I", "J", "K", "L", "M", "N", "O", "P", "Q", "R", "S", "T", "U", "V", "W", "X", "Y",
     "Z"}

AllIn(str, S) == \A i \in DOMAIN str : str[i] \in S

\* the radix a text's prefix 0x, 0o or 0b announces, 0 when it has none
PrefixRadix(inp) ==
    IF Len(inp) < 2 \/ inp[1] # "0" THEN 0
    ELSE IF inp[2] \in {"x", "X"} THEN 16
    ELSE IF inp[2] \in {"o", "O"} THEN 8
    ELSE IF inp[2] \in {"b", "B"} THEN 2
    ELSE 0

\* n printed in base 10, for an n that fits 64 bits
IsDecimalInt(inp) ==
    /\ inp # <<>>
    /\ AllIn(inp, Digits)
    /\ Len(inp) > 1 => inp[1] # "0"
    /\ FitsU64(inp, 10)

\* a 0x, 0o or 0b integer with at least one digit, fitting 64 bits
IsRadixInt(inp) ==
    /\ PrefixRadix(inp) # 0
    /\ Len(inp) >= 3
    /\ AllIn(Slice(inp, 2, Len(inp)), RadixDigits(PrefixRadix(inp)))
    /\ FitsU64(Slice(inp, 2, Len(inp)), PrefixRadix(inp))

\* digits, then a fractional part (. digits) and/or an exponent
\* (e, an optional sign, digits)
IsFloat(inp) ==
    LET n  == Len(inp)
        i1 == ScanWhile(inp, 0, Digits)
        dot == i1 < n /\ inp[i1 + 1] = "."
        i2 == IF dot THEN ScanWhile(inp, i1 + 1, Digits) ELSE i1
        hasExp == i2 < n /\ inp[i2 + 1] \in {"e", "E"}
        i3 == IF hasExp /\ i2 + 1 < n /\ inp[i2 + 2] \in {"+", "-"} THEN i2 + 2 ELSE i2 + 1
        i4 == IF hasExp THEN ScanWhile(inp, i3, Digits) ELSE i2
    IN  /\ i1 > 0
        /\ dot \/ hasExp
        /\ dot => i2 > i1 + 1
        /\ hasExp => i4 > i3
        /\ i4 = n

\* C3: a source that is exactly one well-formed numeric literal gives exactly
\* one IntLiteral (FloatLiteral for a float) spanning the whole text, then
\* Eof, and no error flag.
C3_WellFormedNumberOneLiteral ==
    (FirstCallReturned /\ (IsDecimalInt(input) \/ IsRadixInt(input) \/ IsFloat(input))) =>
        /\ returned =
             <<Tok(IF IsFloat(input) THEN "FloatLiteral" ELSE "IntLiteral", 1, 0, input), Eof>>
        /\ ~has_error

\* a 0x, 0o or 0b prefix followed by letters and digits of which one is no
\* digit of the radix (0xZZ, 0b2, 0o9)
IsMalformedRadix(inp) ==
    /\ PrefixRadix(inp) # 0
    /\ Len(inp) >= 3
    /\ AllIn(Slice(inp, 2, Len(inp)), Digits \cup Letters)
    /\ ~AllIn(Slice(inp, 2, Len(inp)), RadixDigits(PrefixRadix(inp)))

\* digits and an exponent mark with no exponent digits (1e, 1e+)
IsMalformedFloat(inp) ==
    LET n  == Len(inp)
        i1 == ScanWhile(inp, 0, Digits)
    IN  /\ i1 > 0
        /\ i1 < n
        /\ inp[i1 + 1] \in {"e", "E"}
        /\ \/ n = i1 + 1
           \/ n = i1 + 2 /\ inp[n] \in {"+", "-"}

MalformedKind(inp) ==
    IF IsMalformedFloat(inp) THEN "InvalidFloat"
    ELSE IF PrefixRadix(inp) = 16 THEN "InvalidHexaDecimal"
    ELSE IF PrefixRadix(inp) = 8 THEN "InvalidOctal"
    ELSE "InvalidBinary"

\* C4: a source that is exactly one malformed numeric literal gives exactly
\* one Error token of the literal's kind, then Eof, and the error flag; no
\* other token comes from the literal's characters.
C4_MalformedNumberOneError ==
    (FirstCallReturned /\ (IsMalformedRadix(input) \/ IsMalformedFloat(input))) =>
        /\ Len(returned) = 2
        /\ returned[1].kind = "Error"
        /\ returned[1].err = MalformedKind(input)
        /\ returned[2] = Eof
        /\ has_error

\* C5: has_error is set exactly when an Error token has been pushed, in every
\* state and so in every returned list, and once set it is never cleared.
C5_FlagIffErrorToken ==
    /\ [](has_error <=> HasErrorToken(tokens))
    /\ [](pc = "ret" => (has_error <=> HasErrorToken(returned)))
    /\ [][has_error => has_error']_vars

\* a second call has returned with the flag of the first call's error kept
C5_Witness ==
    /\ pc = "ret"
    /\ calls = 2
    /\ has_error
    /\ HasErrorToken(returned)

\* C6: the column of every token other than Eof and Error is the byte offset
\* of the token's first character and its lexeme is the source text of its
\* length at that offset.
C6_ColumnAndLexemeVerbatim ==
    \A i \in DOMAIN tokens :
        tokens[i].kind \notin {"Eof", "Error"} =>
            /\ tokens[i].col = starts[i]
            /\ tokens[i].col + Len(tokens[i].lexeme) <= Len(input)
            /\ tokens[i].lexeme =
                   Slice(input, tokens[i].col, tokens[i].col + Len(tokens[i].lexeme))

\* a text that opens a literal with quote inp[1] and has no later occurrence
\* of that quote that is not preceded by a backslash
IsUnterminatedLiteral(inp) ==
    /\ inp # <<>>
    /\ inp[1] \in {"\"", "'"}
    /\ \A i \in 2..Len(inp) : ~(inp[i] = inp[1] /\ inp[i - 1] # "\\")

\* C7: a string or char literal that reaches the end of input unclosed gives
\* exactly one Error token (unexpected EOF or unterminated literal), no
\* literal token, the error flag, and Eof.
C7_UnterminatedLiteralOneError ==
    (FirstCallReturned /\ IsUnterminatedLiteral(input)) =>
        /\ Len(returned) = 2
        /\ returned[1].kind = "Error"
        /\ returned[1].err \in
             {"UnexpectedEOF",
              IF input[1] = "\"" THEN "UnterminatedStringLiteral"
              ELSE "UnterminatedCharacterLiteral"}
        /\ returned[2] = Eof
        /\ has_error

\* C8: on a token buffer that ends with Eof, parse never reads the buffer at
\* an index outside it.
C8_CursorInBounds == ppc # "oob"

\* the declaration kind a well-formed declaration starts
DeclKind(toks) ==
    IF get_lexeme(toks[1]) = W_fn THEN "Function"
    ELSE IF get_lexeme(toks[1]) = W_enum THEN "Enum"
    ELSE IF get_lexeme(toks[1]) = W_struct THEN "Struct"
    ELSE "Interface"

\* C9: a well-formed function, enum, struct or interface declaration is
\* parsed to a declaration of that kind without an embedded error, and parse
\* returns the tree that holds it.
C9_WellFormedDeclarationParsed ==
    (ptokens \in {TokenBuffer(w) : w \in WellFormed}) =>
        /\ ppc \notin {"oob", "todo"}
        /\ ppc = "ret" =>
             /\ Len(ast) >= 1
             /\ ast[1].kind = DeclKind(ptokens)
             /\ ast[1].error = NoError

EmbedsError(d) == d.kind = "Error" \/ d.error # NoError \/ d.id.error # NoError

\* C10: after parse returns, has_error holds exactly when a declaration of
\* the tree is an error declaration or embeds an error.
C10_FlagIffEmbeddedError ==
    ppc = "ret" => (phas_error <=> \E i \in DOMAIN ast : EmbedsError(ast[i]))

ConstKinds == {W_enum, W_struct, W_intf}

\* the index (1-based) of the const of a buffer that begins with const, or
\* with pub const, followed by enum, struct or intf; 0 for any other buffer
ConstAt(toks) ==
    LET k == IF get_lexeme(toks[1]) = W_pub THEN 2 ELSE 1
    IN  IF /\ Len(toks) >= k + 1
           /\ get_lexeme(toks[k]) = W_const
           /\ get_lexeme(toks[k + 1]) \in ConstKinds
        THEN k ELSE 0

ConstMessage(kind) ==
    IF kind = W_enum THEN "The const keyword cannot be used with enum types."
    ELSE IF kind = W_struct THEN "The const keyword cannot be used with struct types."
    ELSE "The const keyword cannot be used with intf types."

IsConstError(d, kind) ==
    /\ d.kind = "Error"
    /\ d.error.kind = "InvalidSyntax"
    /\ d.error.text = ConstMessage(kind)

\* C11: when const, with or without pub before it, is followed by enum,
\* struct or intf, the declaration parsed from them is one Error declaration
\* that says const cannot be used with that kind; the tree of pub const enum
\* holds that error declaration exactly once.
C11_ConstWithTypeKindIsOneError ==
    (ppc = "ret" /\ ConstAt(ptokens) # 0) =>
        LET kind == get_lexeme(ptokens[ConstAt(ptokens) + 1])
        IN  /\ Len(ast) >= 1
            /\ IsConstError(ast[1], kind)
            /\ Cardinality({k \in DOMAIN ast : IsConstError(ast[k], kind)}) = 1

\* the cursor parse_declaration hands to parse_fn: past a leading pub
FnIndex == IF check(ptokens, index, W_pub) THEN index + 1 ELSE index

\* the next iteration of parse calls parse_fn
AtFn ==
    /\ ppc = "parse"
    /\ InBounds(ptokens, index)
    /\ InBounds(ptokens, FnIndex)
    /\ check(ptokens, FnIndex, W_fn)

\* ... and parse_fn calls parse_identifier with the cursor at the end of
\* input: past the last token, or on the trailing Eof
IdentifierAtEnd ==
    /\ AtFn
    /\ \/ peof(ptokens, FnIndex + 1)
       \/ pcurrent(ptokens, FnIndex + 1).kind = "Eof"

\* C12: parse_identifier called at the end of input returns, as a value, an
\* Identifier without token and with an UnexpectedEOF error (which parse_fn
\* puts in the function declaration it returns); it reads no token outside
\* the buffer and does not abort.
C12_IdentifierAtEndIsErrorValue ==
    [][IdentifierAtEnd =>
          /\ parse_identifier(ptokens, FnIndex + 1).abort = "no"
          /\ ppc' = "parse"
          /\ Len(ast') = Len(ast) + 1
          /\ ast'[Len(ast')].kind = "Function"
          /\ ast'[Len(ast')].id.id = NoToken
          /\ ast'[Len(ast')].id.error.kind = "UnexpectedEOF"]_vars

\* ... and parse_fn calls parse_identifier with the cursor on an Identifier
IdentifierOnName ==
    /\ AtFn
    /\ InBounds(ptokens, FnIndex + 1)
    /\ pcurrent(ptokens, FnIndex + 1).kind = "Identifier"

\* C13: parse_identifier called on an Identifier token t returns an
\* Identifier without error whose token is t, and leaves the cursor on the
\* token after t; the function declaration built from it names t.
C13_IdentifierCapturesCurrentToken ==
    [][IdentifierOnName =>
          LET t == pcurrent(ptokens, FnIndex + 1)
              r == parse_identifier(ptokens, FnIndex + 1)
          IN  /\ r.abort = "no"
              /\ r.index = FnIndex + 2
              /\ r.node = Identifier(t, NoError)
              /\ Len(ast') = Len(ast) + 1 => ast'[Len(ast')].id = Identifier(t, NoError)]_vars

FinalStates == {"ret", "oob", "todo"}

LowerHexDigits == {HexChars[x] : x \in DOMAIN HexChars}

\* C18: the digest get_hash returns is a function of the file's bytes alone:
\* it is the digest of the bytes taken in one piece, however the reads split
\* them; calls on files of equal bytes (the same path twice, or two paths)
\* return equal digests; and the digest is 32 hexadecimal characters. (The
\* results are appended one at a time, so each is the last one when it is
\* returned.)
C18_DigestOfBytesOnly ==
    /\ hdone # <<>> =>
          LET r == hdone[Len(hdone)]
          IN  r.ok =>
                  /\ r.digest = DigestOf(fs[r.path])
                  /\ Len(r.digest) = 32
                  /\ \A k \in DOMAIN r.digest : r.digest[k] \in LowerHexDigits
    /\ \A i, j \in DOMAIN hdone :
          (hdone[i].ok /\ hdone[j].ok /\ fs[hdone[i].path] = fs[hdone[j].path]) =>
              hdone[i].digest = hdone[j].digest

\* two files of the same three or more bytes were hashed, one in more reads
\* than the other
C18_Witness ==
    /\ Len(hdone) = 2
    /\ hdone[1].ok
    /\ hdone[2].ok
    /\ hdone[1].path # hdone[2].path
    /\ fs[hdone[1].path] = fs[hdone[2].path]
    /\ Len(fs[hdone[1].path]) >= 3
    /\ hdone[1].reads # hdone[2].reads

\* C15: main, for each file: when the cache holds an entry for the digest of
\* the file, loads the tree and runs neither lexer nor parser; otherwise runs
\* lexer and parser on the file and saves the tree under the digest, so that
\* a second compilation of a file compiled without error finds the entry.
C15_DriverUsesCache ==
    /\ \A i \in DOMAIN dlog :
          /\ dlog[i].cached =>
                (dlog[i].skipped /\ dlog[i].loaded /\ dlog[i].lexed = "none"
                                 /\ ~dlog[i].parsed)
          /\ ~dlog[i].cached =>
                /\ dlog[i].lexed = "file"
                /\ dlog[i].parsed
                /\ dlog[i].saved
                /\ FileAt(cachedir, cache_file_path(dlog[i].digest)) # NoFile
    /\ \A i, j \in DOMAIN dlog :
          (i < j /\ dlog[i].path = dlog[j].path /\ (dlog[i].parsed \/ dlog[i].loaded)) =>
              (dlog[j].cached /\ dlog[j].skipped)

SomeErrorInFunction(t) ==
    \E k \in DOMAIN t : t[k].kind = "Function" /\ t[k].error.kind # "None"

\* C16: after save_ast_to_file(t, p) returned, and as long as nothing else
\* writes p, load_ast_from_file(p) returns Ok of a tree equal to t.
C16_SaveLoadRoundTrip ==
    /\ \A p \in CachePaths :
          stored[p].ok => load_ast_from_file(cachedir, p) = Loaded(stored[p].tree)
    /\ \A w \in Workers :
          (wres[w].op = "load" /\ stored[wres[w].path].ok) =>
              (wres[w].ok /\ wres[w].tree = stored[wres[w].path].tree)

\* a tree with a function declaration that embeds an error was saved over
\* an earlier save to the same path, and loaded
C16_Witness ==
    /\ nsaves = 2
    /\ Cardinality(saved) = 1
    /\ wres[1].op = "load"
    /\ wres[1].ok
    /\ stored[wres[1].path].ok
    /\ SomeErrorInFunction(wres[1].tree)

\* C17: once a tree is saved under the digest of a source's content,
\* file_exists_in_cache of the source is true; it is false for a source whose
\* digest nothing was saved under (and for a path that names no file); and a
\* step of a save under one digest leaves the entry of every other digest as
\* it was.
C17_ExistsAfterSaveOnlyThere ==
    /\ [](\A s \in SourcePaths :
             stored[cache_file_path(DigestOf(fs[s]))].ok =>
                 file_exists_in_cache(fs, cachedir, s))
    /\ [](\A s \in SourcePaths \cup {MissingPath} :
             (fs[s] = NoFile \/ DigestOf(fs[s]) \notin saved) =>
                 ~file_exists_in_cache(fs, cachedir, s))
    /\ [](\A w \in Workers :
             (wres[w].op = "exists" /\ wres[w].path # <<>> /\ stored[wres[w].path].ok) =>
                 wres[w].ok)
    /\ [][\A w \in Workers :
             wjob'[w] # wjob[w] =>
                 \A dg \in CacheDigests \ {wjob'[w].digest} :
                     cachedir'[cache_file_path(dg)] = cachedir[cache_file_path(dg)]]_vars

\* of two sources of different digests one was saved; the question was asked
\* for it, with the answer true, and the other has no entry
C17_Witness ==
    /\ DigestOf(fs[<<"a.zx">>]) # DigestOf(fs[<<"b.zx">>])
    /\ stored[cache_file_path(DigestOf(fs[<<"a.zx">>]))].ok
    /\ saved = {DigestOf(fs[<<"a.zx">>])}
    /\ wres[1] = Result("exists", cache_file_path(DigestOf(fs[<<"a.zx">>])), TRUE, <<>>)
    /\ ~file_exists_in_cache(fs, cachedir, <<"b.zx">>)

\* C19: with workers saving the same tree under the same digest without a
\* lock, a worker that was told the entry exists and then loads it gets the
\* whole tree; an entry that exists is never empty or partial.
C19_ReaderSeesCompleteEntry ==
    /\ [][\A w \in Workers :
             (wres[w].op = "exists" /\ wres[w].ok /\ wres'[w].op = "load") =>
                 (wres'[w].ok /\ wres'[w].tree = compiled)]_vars
    /\ [](\A p \in CachePaths :
             cachedir[p] # NoFile => load_ast_from_file(cachedir, p) = Loaded(compiled))

Quotes == {"\"", "'"}

\* the index of the first occurrence, after the opening quote inp[1], of that
\* quote not preceded by a backslash; 0 when there is none
ClosingQuote(inp) ==
    LET closing == {i \in 2..Len(inp) : inp[i] = inp[1] /\ inp[i - 1] # "\\"}
    IN  IF closing = {} THEN 0 ELSE CHOOSE i \in closing : \A j \in closing : i <= j

\* C21: a source that opens a string or char literal and holds its closing
\* quote (the first matching quote not preceded by a backslash) gives, as
\* its first token, the literal whose lexeme is the source text from the
\* opening quote through the closing quote: an escaped quote is copied once
\* and the character after it is neither skipped nor replaced.
C21_EscapedQuoteCopiedOnce ==
    (FirstCallReturned /\ input # <<>> /\ input[1] \in Quotes /\ ClosingQuote(input) # 0) =>
        returned[1] =
            Tok(IF input[1] = "\"" THEN "StringLiteral" ELSE "CharLiteral", 1, 0,
                SubSeq(input, 1, ClosingQuote(input)))

\* the cursor is on the two characters a b
At2(a, b) ==
    /\ col + 1 < Len(input)
    /\ input[col + 1] = a
    /\ input[col + 2] = b

\* the offsets, after the /* at the cursor, at which a */ begins
Closings == {p \in (col + 2)..(Len(input) - 2) : input[p + 1] = "*" /\ input[p + 2] = "/"}

\* what a token says apart from its column
TokenText(t) == [kind |-> t.kind, err |-> t.err, line |-> t.line, lexeme |-> t.lexeme]

TokenTexts(toks) == [i \in DOMAIN toks |-> TokenText(toks[i])]

\* the offset after the comment that opens inp, when it is a terminated
\* comment; 0 when inp opens no terminated comment
AfterComment(inp) ==
    IF Len(inp) < 2 \/ inp[1] # "/" THEN 0
    ELSE IF inp[2] = "/"
    THEN CHOOSE e \in 2..Len(inp) :
            /\ \A k \in 3..e : inp[k] # "\n"
            /\ e = Len(inp) \/ inp[e + 1] = "\n"
    ELSE IF inp[2] = "*"
    THEN LET ends == {p \in 2..(Len(inp) - 2) : inp[p + 1] = "*" /\ inp[p + 2] = "/"}
         IN  IF ends = {} THEN 0 ELSE (CHOOSE p \in ends : \A q \in ends : p <= q) + 2
    ELSE 0

\* C22: a // comment moves the cursor to the next newline (or the end of the
\* input) and a /* comment to just after the first following */; neither adds
\* a token or sets the error flag, and the tokens after a comment that opens
\* the source are those of the source without it; a /* comment that is not
\* closed adds exactly one UnterminatedComment Error token, sets the flag and
\* leaves the cursor at the end of the input.
C22_CommentsAddNoToken ==
    /\ [][(Scanning /\ At2("/", "/")) =>
             /\ col' <= Len(input)
             /\ \A k \in (col + 1)..col' : input[k] # "\n"
             /\ col' = Len(input) \/ input[col' + 1] = "\n"
             /\ tokens' = tokens
             /\ has_error' = has_error]_vars
    /\ [][(Scanning /\ At2("/", "*") /\ Closings # {}) =>
             /\ col' - 2 \in Closings
             /\ \A p \in Closings : col' - 2 <= p
             /\ tokens' = tokens
             /\ has_error' = has_error]_vars
    /\ [][(Scanning /\ At2("/", "*") /\ Closings = {}) =>
             /\ col' = Len(input)
             /\ Len(tokens') = Len(tokens) + 1
             /\ SubSeq(tokens', 1, Len(tokens)) = tokens
             /\ tokens'[Len(tokens')].kind = "Error"
             /\ tokens'[Len(tokens')].err = "UnterminatedComment"
             /\ has_error']_vars
    /\ []((FirstCallReturned /\ AfterComment(input) # 0) =>
             TokenTexts(returned) =
                 TokenTexts(lex(Slice(input, AfterComment(input), Len(input))).tokens))

\* a block comment that holds a newline, a word, and a block comment that is
\* not closed: the word, one Error token and Eof were returned
C22_Witness ==
    /\ FirstCallReturned
    /\ AfterComment(input) = 5
    /\ input[3] = "\n"
    /\ Len(returned) = 3
    /\ returned[1].kind = "Identifier"
    /\ returned[2].err = "UnterminatedComment"
    /\ has_error

WordStops == Operators \cup Separators \cup Whitespace

\* the cursor is on a character that starts a word: the last branch of the
\* dispatch of lex
AtWord ==
    /\ Scanning
    /\ current(input, col) \notin Numeric \cup WordStops \cup Quotes \cup {"PANIC"}

\* C23: at a character that starts a word, one step pushes exactly one token
\* whose lexeme is the run of characters up to the next operator, separator
\* or whitespace character (or the end of the input): a DataType if the text
\* is one of the 16 data types, a Keyword if it is one of the 27 keywords, an
\* Identifier otherwise; no text is in both tables, so the kind is the same
\* with the keywords looked up first; and every Identifier token has a
\* lexeme that is not empty and is in neither table.
C23_WordClassifiedByTables ==
    /\ [][AtWord =>
             /\ col' > col
             /\ col' <= Len(input)
             /\ \A k \in (col + 1)..col' : input[k] \notin WordStops
             /\ col' = Len(input) \/ input[col' + 1] \in WordStops
             /\ tokens' =
                  Append(tokens,
                         Tok(IF Slice(input, col, col') \in KEYWORDS THEN "Keyword"
                             ELSE IF Slice(input, col, col') \in DATA_TYPES THEN "DataType"
                             ELSE "Identifier",
                             line, col, Slice(input, col, col')))]_vars
    /\ [](/\ Cardinality(DATA_TYPES) = 16
          /\ Cardinality(KEYWORDS) = 27
          /\ DATA_TYPES \cap KEYWORDS = {})
    /\ [](\A i \in DOMAIN tokens :
             tokens[i].kind = "Identifier" =>
                 /\ tokens[i].lexeme # <<>>
                 /\ tokens[i].lexeme \notin DATA_TYPES \cup KEYWORDS)

\* a data type, a keyword and a word that starts with a keyword were lexed
C23_Witness ==
    /\ FirstCallReturned
    /\ Len(returned) = 4
    /\ returned[1].kind = "DataType"
    /\ returned[2].kind = "Keyword"
    /\ returned[3].kind = "Identifier"
    /\ returned[3].lexeme = returned[2].lexeme \o <<"x">>

\* how many newline characters inp holds before offset c
NewlinesBefore(inp, c) == Cardinality({k \in 1..c : inp[k] = "\n"})

\* C24: the line of every token but Eof, Error tokens included, is 1 plus the
\* number of newlines of the input before the token's first character,
\* those inside comments and literals counted; and the line counter changes
\* only by one, on a newline.
C24_LineCountsEveryNewline ==
    /\ [](\A i \in DOMAIN tokens :
             tokens[i].kind # "Eof" =>
                 tokens[i].line = 1 + NewlinesBefore(input, starts[i]))
    /\ [][line' # line => (current(input, col) = "\n" /\ line' = line + 1)]_vars

\* the token at index i of toks has this lexeme
LexemeAt(toks, i, lexeme) == InBounds(toks, i) /\ get_lexeme(pcurrent(toks, i)) = lexeme

IdentifierTokenAt(toks, i) == InBounds(toks, i) /\ pcurrent(toks, i).kind = "Identifier"

\* the index after the > that closes the entries starting at i (each the
\* word type and an identifier, then optionally impl and an identifier,
\* separated by commas); -1 when the tokens from i are no such entries
RECURSIVE EntriesEnd(_, _)
EntriesEnd(toks, i) ==
    IF ~(LexemeAt(toks, i, W_type) /\ IdentifierTokenAt(toks, i + 1)) THEN -1
    ELSE LET j == IF LexemeAt(toks, i + 2, W_impl) /\ IdentifierTokenAt(toks, i + 3)
                  THEN i + 4 ELSE i + 2
         IN  IF LexemeAt(toks, j, <<">">>) THEN j + 1
             ELSE IF LexemeAt(toks, j, <<",">>) THEN EntriesEnd(toks, j + 1)
             ELSE -1

\* the index after a well-formed generic parameter list that starts at i
GenericsEnd(toks, i) == IF LexemeAt(toks, i, <<"<">>) THEN EntriesEnd(toks, i + 1) ELSE -1

\* C25: at a token that is not <, parse_generic_parameters returns None and
\* leaves the cursor; at a well-formed list it returns Some list without an
\* error and leaves the cursor on the token after the closing >.
C25_GenericParametersParsed ==
    /\ [](\A i \in 0..(Len(ptokens) - 1) :
             ~LexemeAt(ptokens, i, <<"<">>) =>
                 parse_generic_parameters(ptokens, i) =
                     [abort |-> "no", index |-> i, some |-> FALSE, error |-> NoError])
    /\ [][(/\ attempts' = attempts + 1
           /\ LexemeAt(ptokens, index, <<"f", "n">>)
           /\ IdentifierTokenAt(ptokens, index + 1)
           /\ GenericsEnd(ptokens, index + 2) # -1) =>
              LET r == parse_generic_parameters(ptokens, index + 2)
              IN  /\ r.abort = "no" /\ r.some /\ r.error = NoError
                  /\ r.index = GenericsEnd(ptokens, index + 2)
                  /\ ppc' = "todo"
                  /\ index' = r.index]_vars

\* the cursor after an optional pub, where parse_declaration looks for the
\* keyword of the declaration
DeclStart(toks, i) == IF check(toks, i, W_pub) THEN i + 1 ELSE i

\* the token at which the declaration starting at i0 is found to be wrong:
\* the token after fn when it is no Identifier, the token after the name of
\* the function otherwise, and the first token of any other declaration
DetectedAt(toks, i0) ==
    IF ~check(toks, DeclStart(toks, i0), W_fn) THEN DeclStart(toks, i0)
    ELSE IF pcurrent(toks, DeclStart(toks, i0) + 1).kind = "Identifier"
    THEN DeclStart(toks, i0) + 2
    ELSE DeclStart(toks, i0) + 1

\* C26: every error a step of parse embeds in the tree carries the line and
\* the column of the token at which the violation was detected (read through
\* get_line and get_col), and that token's lexeme or a message.
C26_ErrorCarriesOffendingToken ==
    [][(/\ attempts' = attempts + 1
        /\ Len(ast') = Len(ast) + 1
        /\ ast'[Len(ast')].error # NoError) =>
          LET e == ast'[Len(ast')].error
              t == pcurrent(ptokens, DetectedAt(ptokens, index))
          IN  /\ e.line = get_line(t)
              /\ e.col = get_col(t)
              /\ (e.lexeme = get_lexeme(t) \/ e.text # "")]_vars

\* the radix of the integer literal that starts with the digit at c
LiteralRadix(inp, c) ==
    IF inp[c + 1] # "0" THEN 10
    ELSE IF current(inp, c + 1) \in {"x", "X"} THEN 16
    ELSE IF current(inp, c + 1) \in {"o", "O"} THEN 8
    ELSE IF current(inp, c + 1) \in {"b", "B"} THEN 2
    ELSE 10

\* where the digits of that literal start and end
LiteralDigitsStart(inp, c) == IF LiteralRadix(inp, c) = 10 THEN c ELSE c + 2

LiteralEnd(inp, c) ==
    ScanWhile(inp, LiteralDigitsStart(inp, c), RadixDigits(LiteralRadix(inp, c)))

LiteralDigits(inp, c) == Slice(inp, LiteralDigitsStart(inp, c), LiteralEnd(inp, c))

RadixError(radix) ==
    CASE radix = 16 -> "InvalidHexaDecimal" [] radix = 8 -> "InvalidOctal"
      [] radix = 2 -> "InvalidBinary" [] radix = 10 -> "InvalidDecimal"

\* the lexer is at an integer literal: a digit, and in radix 10 no fraction,
\* exponent or other numeric character after the digits
AtIntLiteral ==
    /\ Scanning
    /\ current(input, col) \in Digits
    /\ (LiteralRadix(input, col) = 10 =>
           current(input, LiteralEnd(input, col)) \notin {".", "e", "E", "D9"})

\* C27: an integer literal yields an IntLiteral token exactly when its digit
\* string is non-empty and its value is at most 2^64 - 1, and the Error token
\* of its radix with the literal as written otherwise; the cursor is then
\* after the literal and the scan goes on.
C27_IntLiteralOrRadixError ==
    [][AtIntLiteral =>
          /\ pc' = "scan"
          /\ col' = LiteralEnd(input, col)
          /\ Len(tokens') = Len(tokens) + 1
          /\ LET t == tokens'[Len(tokens')]
                 digs == LiteralDigits(input, col)
             IN  IF digs # <<>> /\ FitsU64(digs, LiteralRadix(input, col))
                 THEN t.kind = "IntLiteral"
                 ELSE /\ t.kind = "Error"
                      /\ t.err = RadixError(LiteralRadix(input, col))
                      /\ t.lexeme = Slice(input, col, LiteralEnd(input, col))]_vars

StageRank(s) == CASE s = "lookup" -> 1 [] s = "lex" -> 2 [] s = "parse" -> 3

\* texts with and without a lexical error, for the test between the lexer
\* and the parser
GuardTexts == {<<"0", "x", "Z", "Z">>, <<"/", "*", "a">>, <<"\"", "a">>, <<"1", "2", "3">>}

\* C28: for every file the stages main enters are cache lookup, lexing,
\* parsing in that order, each at most once and none without the one before
\* it; the parser is not started when the lexer's error flag is set; nothing
\* of the same file follows parsing.
C28_StagesInOrder ==
    /\ \A j \in DOMAIN dstages :
          /\ dstages[j].stage \in {"lookup", "lex", "parse"}
          /\ dstages[j].stage = "lookup" =>
                dstages[j].file = IF j = 1 THEN 1 ELSE dstages[j - 1].file + 1
          /\ dstages[j].stage # "lookup" =>
                /\ j > 1
                /\ dstages[j - 1].file = dstages[j].file
                /\ StageRank(dstages[j - 1].stage) = StageRank(dstages[j].stage) - 1
          /\ dstages[j].stage = "parse" => ~dstages[j].lex_error
    /\ \A t \in GuardTexts :
          lex(t).has_error =>
              \A j \in DOMAIN CompileStages(1, lex(t)) :
                  CompileStages(1, lex(t))[j].stage # "parse"

\* the first file went through the three stages and the second file's cache
\* lookup came after them
C28_Witness ==
    /\ Len(dstages) >= 4
    /\ dstages[2].stage = "lex" /\ dstages[3].stage = "parse" /\ dstages[3].file = 1
    /\ dstages[4] = Stage(2, "lookup", FALSE)
    /\ \E t \in GuardTexts : lex(t).has_error

\* b is the start of the serialization of a tree and not all of it: an empty
\* or truncated cache file
Truncated(b) ==
    \E t \in Trees : Len(b) < Len(serialize(t)) /\ b = SubSeq(serialize(t), 1, Len(b))

\* cache files of another tree schema: one with a sixth Declaration variant,
\* and one whose function name is a token of a twelfth Token variant
OtherSchemaFiles ==
    {enc_u64(1) \o enc_u32(5) \o enc_fields(1, 0, <<"f">>),
     enc_u64(1) \o enc_u32(2) \o <<1>> \o enc_u32(Len(TokenKinds))
         \o enc_fields(1, 0, <<"f">>) \o <<0>>}

\* what a cache file may hold when a load finds it: nothing at all, a saved
\* tree, any start of one (a save that was interrupted), or a file of
\* another schema
CacheFiles ==
    {NoFile} \cup OtherSchemaFiles
        \cup UNION {{SubSeq(serialize(t), 1, k) : k \in 0..Len(serialize(t))} : t \in Trees}

\* the cache functions that only read, on a cache directory left by earlier
\* runs: one entry holds any such file
ReadInit ==
    /\ \E f \in [SourcePaths -> CacheContents] :
          fs = [p \in SourcePaths \cup {MissingPath} |->
                   IF p = MissingPath THEN NoFile ELSE f[p]]
    /\ \E q \in CachePaths, b \in CacheFiles :
          cachedir = [p \in CachePaths |-> IF p = q THEN b ELSE NoFile]
    /\ wpc = [w \in Workers |-> "idle"]
    /\ wjob = [w \in Workers |-> NoJob]
    /\ wres = [w \in Workers |-> NoResult]
    /\ stored = [p \in CachePaths |-> NotLoaded]
    /\ saved = {}
    /\ nsaves = 0
    /\ compiled = <<>>
    /\ HashOff
    /\ DriverOff
    /\ LexerOff
    /\ ParserOff

ReadNext ==
    \/ \E s \in SourcePaths \cup {MissingPath} : Exists(1, s)
    \/ \E p \in CachePaths : Load(1, p)

ReadCacheSpec == ReadInit /\ [][ReadNext]_vars

\* C29: load_ast_from_file on a path with no file, or with an empty,
\* truncated or other-schema file, returns an error and no tree, aborts
\* nothing and leaves every cache file as it was; file_exists_in_cache is
\* false when the source cannot be read.
C29_LoadFailsCleanly ==
    /\ [][(wres'[1] # wres[1] /\ wres'[1].op = "load") =>
             /\ (\/ FileAt(cachedir, wres'[1].path) = NoFile
                 \/ cachedir[wres'[1].path] \in OtherSchemaFiles
                 \/ Truncated(cachedir[wres'[1].path])) =>
                   (~wres'[1].ok /\ wres'[1].tree = <<>>)
             /\ cachedir' = cachedir
             /\ wpc' = wpc]_vars
    /\ [][(wres'[1] # wres[1] /\ wres'[1].op = "exists" /\ wres'[1].path = <<>>) =>
             (~wres'[1].ok /\ cachedir' = cachedir /\ wpc' = wpc)]_vars
    /\ [](~file_exists_in_cache(fs, cachedir, MissingPath))

\* a load of an entry that holds a non-empty start of a tree has returned an
\* error
C29_Witness ==
    \E p \in CachePaths :
        /\ wres[1] = Result("load", p, FALSE, <<>>)
        /\ cachedir[p] # NoFile
        /\ Len(cachedir[p]) > 8
        /\ Truncated(cachedir[p])

\* the characters at which the lexer looks one byte ahead: '/' in
\* handle_operator and '*' in the loop of handle_comment
PeekChars == {"/", "*"}

\* C30: the byte cursor is never beyond the input and always on a character
\* boundary; no handler slices the input inside a character or past its end
\* (none aborts), the characters at which the lookahead is taken being one
\* byte long; every start column is non-negative and not beyond the cursor.
C30_CursorOnBoundary ==
    /\ pc # "panic"
    /\ col <= Len(input)
    /\ IsBoundary(input, col)
    /\ \A i \in DOMAIN tokens :
          tokens[i].kind # "Eof" => (tokens[i].col >= 0 /\ tokens[i].col <= col)
    /\ \A c \in 0..(Len(input) - 1) :
          (IsBoundary(input, c) /\ input[c + 1] \in PeekChars) =>
              (Len8(input[c + 1]) = 1 /\ peek(input, c) # "PANIC")

\* a text with a two-byte character right before a '*' inside a block
\* comment was lexed to its end
C30_Witness ==
    /\ FirstCallReturned
    /\ col = Len(input)
    /\ Len(input) >= 5
    /\ input[1] = "/" /\ input[2] = "*"
    /\ input[3] \in LeadBytes /\ input[4] \in ContBytes /\ input[5] = "*"

====
